---- MODULE Spec2Model ----
(***************************************************************************)
(* A model of verbose's session package (transcript parser and session      *)
(* store) and of the part of the ui package that subscribes to the store.   *)
(*                                                                          *)
(* Strings that the code inspects character by character (text bodies,      *)
(* trimmed with strings.TrimSpace) are sequences of one-character strings;  *)
(* strings that the code only compares or copies are TLA+ strings.          *)
(* A time.Time is a natural number, ZeroTime being the zero time.           *)
(***************************************************************************)
EXTENDS Integers, Sequences, FiniteSets, TLC

(***************************************************************************)
(* Bounds of the model.                                                     *)
(***************************************************************************)
\* longest transcript handed to ParseSessionFile in SpecParse
MaxLines == 4
\* file system operations (writes, creations, other changes) in a run
MaxWrites == 2

(***************************************************************************)
(* types (part_002, lines 1-125)                                            *)
(***************************************************************************)
EventUserPrompt == 0
EventThinking == 1
EventText == 2
EventToolUse == 3
EventToolResult == 4
EventSystem == 5
EventCompaction == 6

ZeroTime == 0

\* a nil map / a missing "input"
NilMap == <<>>

NilUsage ==
  [nil |-> TRUE, InputTokens |-> 0, OutputTokens |-> 0,
   CacheCreationInputTokens |-> 0, CacheReadInputTokens |-> 0]

rawUsage(in, out, cw, cr) ==
  [nil |-> FALSE, InputTokens |-> in, OutputTokens |-> out,
   CacheCreationInputTokens |-> cw, CacheReadInputTokens |-> cr]

\* message.content: a JSON string, a JSON array of blocks, or anything else
NullContent == [kind |-> "null", s |-> <<>>, arr |-> <<>>]
StringContent(s) == [kind |-> "string", s |-> s, arr |-> <<>>]
ArrayContent(arr) == [kind |-> "array", s |-> <<>>, arr |-> arr]

NilMessage ==
  [nil |-> TRUE, Role |-> "", Content |-> NullContent, Model |-> "",
   Usage |-> NilUsage, ID |-> ""]

rawMessage(role, content, model, usage, id) ==
  [nil |-> FALSE, Role |-> role, Content |-> content, Model |-> model,
   Usage |-> usage, ID |-> id]

NilCompactMetadata == [nil |-> TRUE, Trigger |-> "", PreTokens |-> 0]

rawCompactMetadata(trigger, pre) ==
  [nil |-> FALSE, Trigger |-> trigger, PreTokens |-> pre]

\* the zero rawEntry, as json.Unmarshal leaves the fields a line lacks
ZeroEntry ==
  [Type |-> "", Subtype |-> "", UUID |-> "", CWD |-> "", Timestamp |-> 0,
   Message |-> NilMessage, CompactMetadata |-> NilCompactMetadata,
   IsCompactSummary |-> FALSE]

\* the zero Event
ZeroEvent ==
  [Type |-> EventUserPrompt, Timestamp |-> ZeroTime, UUID |-> "",
   UserText |-> <<>>, Text |-> <<>>, Thinking |-> <<>>,
   ToolName |-> "", ToolInput |-> NilMap, ToolID |-> "",
   ToolOutput |-> <<>>, IsError |-> FALSE,
   CompactPreTokens |-> 0, CompactTrigger |-> "",
   InputTokens |-> 0, OutputTokens |-> 0]

\* a content block: a JSON object (isMap) with the keys the parser reads; a
\* key the object lacks, or whose value has another type than the parser
\* asserts, holds the zero value, as the parser's `x, _ := m[k].(T)` yields
ZeroBlock ==
  [isMap |-> TRUE, type |-> "", text |-> <<>>, thinking |-> <<>>,
   name |-> "", id |-> "", input |-> NilMap,
   content |-> [kind |-> "string", s |-> <<>>, items |-> <<>>, json |-> <<>>],
   is_error |-> FALSE, tool_use_id |-> ""]

NotAMap == [ZeroBlock EXCEPT !.isMap = FALSE]
TextBlock(t) == [ZeroBlock EXCEPT !.type = "text", !.text = t]
ThinkingBlock(t) == [ZeroBlock EXCEPT !.type = "thinking", !.thinking = t]
ToolUseBlock(name, id, input) ==
  [ZeroBlock EXCEPT !.type = "tool_use", !.name = name, !.id = id, !.input = input]
ToolResultBlock(id, content, isErr) ==
  [ZeroBlock EXCEPT !.type = "tool_result", !.tool_use_id = id,
                    !.content = content, !.is_error = isErr]

\* the "content" of a tool_result block: a string, an array of items, or
\* any other JSON value (given by its JSON text)
ResultString(s) == [kind |-> "string", s |-> s, items |-> <<>>, json |-> <<>>]
ResultItems(items) == [kind |-> "array", s |-> <<>>, items |-> items, json |-> <<>>]
ResultOther(json) == [kind |-> "other", s |-> <<>>, items |-> <<>>, json |-> json]

\* an item of such an array: an object with a string "text", or not
TextItem(t) == [hasText |-> TRUE, text |-> t]
OtherItem == [hasText |-> FALSE, text |-> <<>>]

\* a tool input parameter: a JSON string or a JSON number
StrParam(s) == [isString |-> TRUE, s |-> s]
NumParam == [isString |-> FALSE, s |-> ""]

(***************************************************************************)
(* Helpers standing for the Go library calls of the parser.                 *)
(***************************************************************************)
IsSpace(c) == c \in {" ", "\t", "\n", "\r"}

RECURSIVE TrimLeft(_)
TrimLeft(s) ==
  IF s # <<>> /\ IsSpace(Head(s)) THEN TrimLeft(Tail(s)) ELSE s

RECURSIVE TrimRight(_)
TrimRight(s) ==
  IF s # <<>> /\ IsSpace(s[Len(s)]) THEN TrimRight(SubSeq(s, 1, Len(s) - 1)) ELSE s

\* a TrimSpace that trims nothing
TrimNothing(s) == s

\* strings.TrimSpace
TrimSpace(s) == TrimRight(TrimLeft(s))

\* time.Time.After, Before, IsZero
After(t, u) == t > u
Before(t, u) == t < u
IsZero(t) == t = ZeroTime

\* m[k] = v on a Go map
MapPut(m, k, v) == [x \in DOMAIN m \cup {k} |-> IF x = k THEN v ELSE m[x]]

\* the permutations of a finite set, as sequences: the orders in which a
\* `for k := range m` may visit the keys of a Go map
RECURSIVE Orders(_)
Orders(S) ==
  IF S = {} THEN {<<>>}
  ELSE UNION {{<<x>> \o o : o \in Orders(S \ {x})} : x \in S}

\* the file path of a tool call: e.ToolInput["file_path"].(string)
FilePathOf(input) ==
  IF "file_path" \in DOMAIN input /\ input["file_path"].isString
  THEN [ok |-> TRUE, fp |-> input["file_path"].s]
  ELSE [ok |-> FALSE, fp |-> ""]

(***************************************************************************)
(* parser (part_002, lines 127-508)                                         *)
(***************************************************************************)
\* A timestamp string is modelled by the instant it denotes, 1.., and a
\* string neither layout parses by 0 or less: time.Parse then leaves the
\* zero time.
parseTimestamp(s) == IF s >= 1 THEN s ELSE ZeroTime

estimateCost(info) ==
  \* in units of 10^-8 USD: 15, 75, 1.5 and 18.75 USD per million tokens
  info.InputTokens * 1500 + info.OutputTokens * 7500
    + info.CacheReadTokens * 150 + info.CacheWriteTokens * 1875

\* the output string of one tool_result block
RECURSIVE ConcatItems(_)
ConcatItems(items) ==
  IF items = <<>> THEN <<>>
  ELSE (IF Head(items).hasText THEN Head(items).text ELSE <<>>)
         \o ConcatItems(Tail(items))

ToolResultOutput(c) ==
  CASE c.kind = "string" -> c.s
    [] c.kind = "array" -> ConcatItems(c.items)
    [] OTHER -> c.json

\* the events of one block of a user message
UserBlockEvents(entry, ts, b) ==
  IF ~b.isMap THEN <<>>
  ELSE CASE b.type = "tool_result" ->
              <<[ZeroEvent EXCEPT !.Type = EventToolResult, !.Timestamp = ts,
                                  !.UUID = entry.UUID, !.ToolID = b.tool_use_id,
                                  !.ToolOutput = ToolResultOutput(b.content),
                                  !.IsError = b.is_error]>>
         [] b.type = "text" ->
              IF TrimSpace(b.text) # <<>>
              THEN <<[ZeroEvent EXCEPT !.Type = EventUserPrompt, !.Timestamp = ts,
                                       !.UUID = entry.UUID, !.UserText = b.text]>>
              ELSE <<>>
         [] OTHER -> <<>>

RECURSIVE UserBlocksEvents(_, _, _)
UserBlocksEvents(entry, ts, blocks) ==
  IF blocks = <<>> THEN <<>>
  ELSE UserBlockEvents(entry, ts, Head(blocks))
         \o UserBlocksEvents(entry, ts, Tail(blocks))

parseUserMessage(entry, ts) ==
  IF entry.Message.nil THEN <<>>
  ELSE LET content == entry.Message.Content IN
       CASE content.kind = "string" ->
              IF TrimSpace(content.s) # <<>>
              THEN <<[ZeroEvent EXCEPT !.Type = EventUserPrompt, !.Timestamp = ts,
                                       !.UUID = entry.UUID, !.UserText = content.s]>>
              ELSE <<>>
         [] content.kind = "array" -> UserBlocksEvents(entry, ts, content.arr)
         [] OTHER -> <<>>

\* the events of one block of an assistant message
AssistantBlockEvents(entry, ts, b, inputTokens, outputTokens) ==
  IF ~b.isMap THEN <<>>
  ELSE LET base == [ZeroEvent EXCEPT !.Timestamp = ts, !.UUID = entry.UUID,
                                      !.InputTokens = inputTokens,
                                      !.OutputTokens = outputTokens]
       IN CASE b.type = "thinking" ->
                 IF TrimSpace(b.thinking) # <<>>
                 THEN <<[base EXCEPT !.Type = EventThinking, !.Thinking = b.thinking]>>
                 ELSE <<>>
            [] b.type = "text" ->
                 IF TrimSpace(b.text) # <<>>
                 THEN <<[base EXCEPT !.Type = EventText, !.Text = b.text]>>
                 ELSE <<>>
            [] b.type = "tool_use" ->
                 <<[base EXCEPT !.Type = EventToolUse, !.ToolName = b.name,
                                !.ToolInput = b.input, !.ToolID = b.id]>>
            [] OTHER -> <<>>

RECURSIVE AssistantBlocksEvents(_, _, _, _, _)
AssistantBlocksEvents(entry, ts, blocks, inputTokens, outputTokens) ==
  IF blocks = <<>> THEN <<>>
  ELSE AssistantBlockEvents(entry, ts, Head(blocks), inputTokens, outputTokens)
         \o AssistantBlocksEvents(entry, ts, Tail(blocks), inputTokens, outputTokens)

parseAssistantMessage(entry, ts) ==
  IF entry.Message.nil THEN <<>>
  ELSE IF entry.Message.Content.kind # "array" THEN <<>>
  ELSE LET u == entry.Message.Usage
           inputTokens == IF u.nil THEN 0 ELSE u.InputTokens
           outputTokens == IF u.nil THEN 0 ELSE u.OutputTokens
       IN AssistantBlocksEvents(entry, ts, entry.Message.Content.arr,
                                inputTokens, outputTokens)

\* strings.HasPrefix, HasSuffix, TrimSuffix on character sequences
HasPrefix(s, pre) == Len(s) >= Len(pre) /\ SubSeq(s, 1, Len(pre)) = pre
HasSuffix(s, suf) ==
  Len(s) >= Len(suf) /\ SubSeq(s, Len(s) - Len(suf) + 1, Len(s)) = suf
TrimSuffix(s, suf) ==
  IF HasSuffix(s, suf) THEN SubSeq(s, 1, Len(s) - Len(suf)) ELSE s

\* strings.ReplaceAll(s, old, new) for one-character old and new
ReplaceAll(s, old, new) == [i \in 1..Len(s) |-> IF s[i] = old THEN new ELSE s[i]]

\* filepath.Base: the last element of a slash-separated path
RECURSIVE StripSlashes(_)
StripSlashes(s) ==
  IF s # <<>> /\ s[Len(s)] = "/" THEN StripSlashes(SubSeq(s, 1, Len(s) - 1)) ELSE s

RECURSIVE LastElement(_)
LastElement(s) ==
  IF s = <<>> \/ s[Len(s)] = "/" THEN <<>>
  ELSE LastElement(SubSeq(s, 1, Len(s) - 1)) \o <<s[Len(s)]>>

Base(s) ==
  IF s = <<>> THEN <<".">>
  ELSE IF StripSlashes(s) = <<>> THEN <<"/">>
  ELSE LastElement(StripSlashes(s))

Jsonl == <<".", "j", "s", "o", "n", "l">>
AgentPrefix == <<"a", "g", "e", "n", "t", "-">>

\* A path is the pair of its directory's name and its file's name, below
\* the store's base directory.
PathOf(dirName, basename) == [dir |-> dirName, base |-> basename]

\* One line of a transcript file: a line json.Unmarshal decodes into an
\* entry, a line it rejects, an empty line, or a line longer than the
\* scanner's buffer.
JsonLine(entry) == [kind |-> "json", entry |-> entry]
BadLine == [kind |-> "bad", entry |-> ZeroEntry]
EmptyLine == [kind |-> "empty", entry |-> ZeroEntry]
TooLongLine == [kind |-> "toolong", entry |-> ZeroEntry]

\* the content of a path that does not exist
NoFile == <<[kind |-> "nofile", entry |-> ZeroEntry]>>
\* the content of a file that exists and that the process may not read
Locked == <<[kind |-> "locked", entry |-> ZeroEntry]>>

\* a decode loop that ends at the first line json.Unmarshal rejects
RECURSIVE allEntriesUntilBad(_)
allEntriesUntilBad(lines) ==
  IF lines = <<>> THEN <<>>
  ELSE LET l == Head(lines) IN
       CASE l.kind \in {"toolong", "bad"} -> <<>>
         [] l.kind = "json" -> <<l.entry>> \o allEntriesUntilBad(Tail(lines))
         [] OTHER -> allEntriesUntilBad(Tail(lines))

\* a decode loop that passes over a line the scanner cannot buffer
RECURSIVE allEntriesPastLong(_)
allEntriesPastLong(lines) ==
  IF lines = <<>> THEN <<>>
  ELSE LET l == Head(lines) IN
       CASE l.kind = "json" -> <<l.entry>> \o allEntriesPastLong(Tail(lines))
         [] OTHER -> allEntriesPastLong(Tail(lines))

\* ParseSessionFile, lines 182-193: the entries decoded from the lines the
\* scanner yields; the scanner stops at a line it cannot buffer
RECURSIVE allEntries(_)
allEntries(lines) ==
  IF lines = <<>> THEN <<>>
  ELSE LET l == Head(lines) IN
       CASE l.kind = "toolong" -> <<>>
         [] l.kind = "json" -> <<l.entry>> \o allEntries(Tail(lines))
         [] OTHER -> allEntries(Tail(lines))

\* an assistant entry that passes with a message, whatever its identifier
HasMessage(entry) == ~entry.Message.nil

\* ParseSessionFile, lines 202 and 273: the assistant entry has a message
\* and the message an identifier
Identified(entry) == ~entry.Message.nil /\ entry.Message.ID # ""

\* ParseSessionFile, lines 205: whether the entry replaces the stored group
ReplacesGroup(groups, id, ts) ==
  id \notin DOMAIN groups \/ After(ts, groups[id].timestamp)

\* ParseSessionFile, lines 195-217: the first pass over one entry
FirstPassEntry(st, entry) ==
  LET cwd == IF st.CWD = "" /\ entry.CWD # "" THEN entry.CWD ELSE st.CWD IN
  IF entry.Type = "assistant" /\ Identified(entry)
  THEN LET ts == parseTimestamp(entry.Timestamp)
           id == entry.Message.ID
       IN [CWD |-> cwd,
           assistantMessages |->
             IF ReplacesGroup(st.assistantMessages, id, ts)
             THEN MapPut(st.assistantMessages, id, [entry |-> entry, timestamp |-> ts])
             ELSE st.assistantMessages,
           Model |-> IF st.Model = "" /\ entry.Message.Model # ""
                     THEN entry.Message.Model ELSE st.Model]
  ELSE [st EXCEPT !.CWD = cwd]

RECURSIVE FirstPass(_, _)
FirstPass(st, entries) ==
  IF entries = <<>> THEN st
  ELSE FirstPass(FirstPassEntry(st, Head(entries)), Tail(entries))

\* the SessionInfo of lines 155-163
NewInfo(path) ==
  LET projectDir == ReplaceAll(path.dir, "-", "/") IN
  [ID |-> TrimSuffix(path.base, Jsonl),
   ProjectDir |-> projectDir,
   ProjectName |-> Base(projectDir),
   FilePath |-> path,
   StartTime |-> ZeroTime, LastUpdate |-> ZeroTime,
   InputTokens |-> 0, OutputTokens |-> 0,
   CacheReadTokens |-> 0, CacheWriteTokens |-> 0, CostUSD |-> 0,
   EventCount |-> 0, ToolCallCount |-> 0, UserPrompts |-> 0,
   FilesRead |-> <<>>, FilesWritten |-> <<>>, FilesCreated |-> <<>>,
   BashCommands |-> 0, Errors |-> 0,
   IsAgent |-> HasPrefix(path.base, AgentPrefix),
   Model |-> "", CWD |-> ""]

\* the events of a list
Elements(events) == {events[i] : i \in 1..Len(events)}

\* the number of events of a list that are among `matching`
\* a count that takes every event of the list
CountEvery(events, matching) == Len(events)

CountEvents(events, matching) ==
  Cardinality({i \in 1..Len(events) : events[i] \in matching})

\* the file paths that the tool calls of a list carry, whatever the tool
RECURSIVE ToolFilesOfAny(_, _)
ToolFilesOfAny(events, tool) ==
  IF events = <<>> THEN {}
  ELSE LET e == Head(events) IN
       (IF e.Type = EventToolUse /\ FilePathOf(e.ToolInput).ok
        THEN {FilePathOf(e.ToolInput).fp} ELSE {})
         \cup ToolFilesOfAny(Tail(events), tool)

\* the file paths that the tool calls named `tool` of a list carry
RECURSIVE ToolFiles(_, _)
ToolFiles(events, tool) ==
  IF events = <<>> THEN {}
  ELSE LET e == Head(events) IN
       (IF e.Type = EventToolUse /\ e.ToolName = tool /\ FilePathOf(e.ToolInput).ok
        THEN {FilePathOf(e.ToolInput).fp} ELSE {})
         \cup ToolFiles(Tail(events), tool)

\* EmitsAssistant without the seenMessageIDs test of lines 276-278
EmitsAssistantUnseen(st, groups, entry) ==
  /\ ~entry.Message.nil /\ entry.Message.ID # ""
  /\ entry.Message.ID \in DOMAIN groups
  /\ entry.UUID = groups[entry.Message.ID].entry.UUID

\* ParseSessionFile, lines 273-285: whether the second pass emits the
\* assistant entry's message here
EmitsAssistant(st, groups, entry) ==
  /\ Identified(entry)
  /\ entry.Message.ID \notin st.seenMessageIDs
  /\ entry.Message.ID \in DOMAIN groups
  /\ entry.UUID = groups[entry.Message.ID].entry.UUID

\* ParseSessionFile, lines 224-231: start and last-update time
\* the tracking of lines 226-231 without the test !ts.IsZero()
TrackAnyTime(info, ts) ==
  LET start == IF IsZero(info.StartTime) \/ Before(ts, info.StartTime)
               THEN ts ELSE info.StartTime
      last == IF After(ts, info.LastUpdate) THEN ts ELSE info.LastUpdate
  IN [info EXCEPT !.StartTime = start, !.LastUpdate = last]

TrackTimes(info, ts) ==
  LET start == IF IsZero(info.StartTime) \/ (~IsZero(ts) /\ Before(ts, info.StartTime))
               THEN ts ELSE info.StartTime
      last == IF After(ts, info.LastUpdate) THEN ts ELSE info.LastUpdate
  IN [info EXCEPT !.StartTime = start, !.LastUpdate = last]

\* the user case without the test of lines 255-257
SkipsNilMessage(entry) == entry.Message.nil

\* ParseSessionFile, lines 252-257: the user records the second pass passes over
SkipsUser(entry) == entry.Message.nil \/ entry.IsCompactSummary

\* ParseSessionFile, lines 233-322: the second pass over one entry
SecondPassEntry(st, groups, entry) ==
  LET ts == parseTimestamp(entry.Timestamp)
      info == TrackTimes(st.Info, ts)
      timed == [st EXCEPT !.Info = info]
  IN CASE entry.Type = "system" ->
            IF entry.Subtype = "compact_boundary"
            THEN LET md == entry.CompactMetadata
                     preTokens == IF md.nil THEN 0 ELSE md.PreTokens
                     trigger == IF md.nil THEN "" ELSE md.Trigger
                 IN [timed EXCEPT !.Events =
                       Append(@, [ZeroEvent EXCEPT !.Type = EventCompaction,
                                                   !.Timestamp = ts, !.UUID = entry.UUID,
                                                   !.CompactPreTokens = preTokens,
                                                   !.CompactTrigger = trigger])]
            ELSE timed
       [] entry.Type = "user" ->
            IF SkipsUser(entry) THEN timed
            ELSE LET events == parseUserMessage(entry, ts) IN
                 [timed EXCEPT
                    !.Events = @ \o events,
                    !.Info.UserPrompts =
                       @ + CountEvents(events, {e \in Elements(events) :
                                                  e.Type = EventUserPrompt}),
                    !.Info.Errors =
                       @ + CountEvents(events, {e \in Elements(events) :
                                                  e.Type = EventToolResult /\ e.IsError})]
       [] entry.Type = "assistant" ->
            IF ~EmitsAssistant(st, groups, entry) THEN timed
            ELSE LET final == groups[entry.Message.ID]
                     events == parseAssistantMessage(final.entry, ts)
                     u == final.entry.Message.Usage
                 IN [timed EXCEPT
                       !.seenMessageIDs = @ \cup {entry.Message.ID},
                       !.Events = @ \o events,
                       !.Info.ToolCallCount =
                          @ + CountEvents(events, {e \in Elements(events) :
                                                     e.Type = EventToolUse}),
                       !.Info.BashCommands =
                          @ + CountEvents(events, {e \in Elements(events) :
                                                     e.Type = EventToolUse
                                                       /\ e.ToolName = "Bash"}),
                       !.filesRead = @ \cup ToolFiles(events, "Read"),
                       !.filesCreated = @ \cup ToolFiles(events, "Write"),
                       !.filesWritten = @ \cup ToolFiles(events, "Edit"),
                       !.Info.InputTokens = @ + (IF u.nil THEN 0 ELSE u.InputTokens),
                       !.Info.OutputTokens = @ + (IF u.nil THEN 0 ELSE u.OutputTokens),
                       !.Info.CacheReadTokens =
                          @ + (IF u.nil THEN 0 ELSE u.CacheReadInputTokens),
                       !.Info.CacheWriteTokens =
                          @ + (IF u.nil THEN 0 ELSE u.CacheCreationInputTokens)]
       [] OTHER -> timed

RECURSIVE SecondPass(_, _, _)
SecondPass(st, groups, entries) ==
  IF entries = <<>> THEN st
  ELSE SecondPass(SecondPassEntry(st, groups, Head(entries)), groups, Tail(entries))

\* ParseSessionFile: the Sessions a call on a file holding `lines` can
\* return. The three file lists are filled by ranging over Go maps, whose
\* iteration order is unspecified: every order is a possible result.
ParseSessionFile(path, lines) ==
  LET entries == allEntries(lines)
      first == FirstPass([CWD |-> "", assistantMessages |-> <<>>, Model |-> ""],
                         entries)
      info0 == [NewInfo(path) EXCEPT !.CWD = first.CWD, !.Model = first.Model]
      st == SecondPass([Info |-> info0, Events |-> <<>>, seenMessageIDs |-> {},
                        filesRead |-> {}, filesWritten |-> {}, filesCreated |-> {}],
                       first.assistantMessages, entries)
      counted == [st.Info EXCEPT !.EventCount = Len(st.Events)]
      costed == [counted EXCEPT !.CostUSD = estimateCost(counted)]
  IN {[Info |-> [costed EXCEPT !.FilesRead = r, !.FilesWritten = w,
                               !.FilesCreated = c],
       Events |-> st.Events] :
        r \in Orders(st.filesRead), w \in Orders(st.filesWritten),
        c \in Orders(st.filesCreated)}

\* os.Open fails
OpenFails(lines) == lines \in {NoFile, Locked}

(***************************************************************************)
(* State.                                                                   *)
(***************************************************************************)
VARIABLES
  dirs,      \* the base directory and the project directories: name -> state
  disk,      \* the transcript files: path -> lines (NoFile: cannot be opened)
  history,   \* path -> the contents the file has had, in order, with their parses
  parseOf,   \* per file, what ParseSessionFile returns for its content
  parsed,    \* SpecParse: the last return of ParseSessionFile
  sessions,  \* Store.sessions: session ID -> Session
  mu,        \* Store.mu: the holder of the write lock and the number of readers
  updates,   \* Store.updates: the number of notifications in the channel
  watched,   \* the directories added to Store.watcher
  fsEvents,  \* the events Store.watcher.Events is about to deliver
  debounce,  \* Watch's debounce timer
  callbacks, \* the running debounce callbacks (goroutines of time.AfterFunc)
  scan,      \* main and its call of Store.Scan
  ui,        \* the bubbletea Model and its commands
  burst,     \* per file: the time since its last notification and the
             \* re-parses started since its burst of notifications began
  writes,    \* the file system operations so far
  watcher    \* Store.watcher's channels and the goroutine of Watch

vars == <<watcher, dirs, disk, parseOf, history, parsed, sessions, mu, updates, watched, fsEvents, debounce,
          callbacks, scan, ui, burst, writes>>

storeVars == <<sessions, mu, updates, watched, fsEvents, debounce, callbacks,
               scan, ui, burst, writes>>

(***************************************************************************)
(* Transcripts of SpecParse.                                                *)
(***************************************************************************)
TxtA == <<"a">>
TxtB == <<"b">>
TxtHi == <<"h", "i">>
TxtBlank == <<" ">>
TxtErr == <<"e", "r", "r">>

DirA == <<"-", "u", "-", "p", "a">>
FileS1 == <<"s", "1">> \o Jsonl
FileS2 == <<"s", "2">> \o Jsonl
PathA1 == PathOf(DirA, FileS1)
PathA2 == PathOf(DirA, FileS2)
\* a second project directory with a transcript named like one of the first
DirB == <<"-", "u", "-", "p", "b">>
PathB1 == PathOf(DirB, FileS1)

Paths == {PathA1, PathA2, PathB1}

AssistantEntry(uuid, ts, id, blocks, usage) ==
  [ZeroEntry EXCEPT !.Type = "assistant", !.UUID = uuid, !.Timestamp = ts,
                    !.CWD = "/u/pa",
                    !.Message = rawMessage("assistant", ArrayContent(blocks),
                                           "opus", usage, id)]

UserEntry(uuid, ts, content) ==
  [ZeroEntry EXCEPT !.Type = "user", !.UUID = uuid, !.Timestamp = ts,
                    !.CWD = "/u/pa",
                    !.Message = rawMessage("user", content, "", NilUsage, "")]

SystemEntry(uuid, ts, subtype, md) ==
  [ZeroEntry EXCEPT !.Type = "system", !.UUID = uuid, !.Timestamp = ts,
                    !.Subtype = subtype, !.CompactMetadata = md]

\* message m1: a first partial record, a later revision, and a record with
\* the revision's timestamp; message m2; two user records; a compaction
LineA1 ==
  JsonLine(AssistantEntry("u1", 1, "m1", <<TextBlock(TxtA)>>, rawUsage(1, 1, 0, 0)))
LineA2 ==
  JsonLine(AssistantEntry("u2", 2, "m1",
                          <<TextBlock(TxtA), ToolUseBlock("Bash", "t1", NilMap)>>,
                          rawUsage(2, 3, 1, 1)))
LineA3 ==
  JsonLine(AssistantEntry("u3", 2, "m1", <<TextBlock(TxtB)>>, rawUsage(4, 5, 0, 2)))
LineB1 ==
  JsonLine(AssistantEntry("u4", 1, "m2",
                          <<ThinkingBlock(TxtBlank),
                            ToolUseBlock("Read", "t2",
                                         [file_path |-> StrParam("/f")])>>,
                          rawUsage(8, 9, 4, 4)))
LineU1 == JsonLine(UserEntry("u5", 3, StringContent(TxtHi)))
LineU2 ==
  JsonLine(UserEntry("u6", 1,
                     ArrayContent(<<ToolResultBlock("t1", ResultString(TxtErr), TRUE)>>)))
LineS1 ==
  JsonLine(SystemEntry("u7", 2, "compact_boundary", rawCompactMetadata("auto", 7)))
\* message m3: a blank text and a second file read; a blank prompt
LineB2 ==
  JsonLine(AssistantEntry("u9", 3, "m3",
                          <<TextBlock(TxtBlank),
                            ToolUseBlock("Read", "t3",
                                         [file_path |-> StrParam("/g")])>>,
                          rawUsage(1, 1, 0, 0)))
LineU3 == JsonLine(UserEntry("u10", 2, StringContent(TxtBlank)))

ParsePool ==
  {LineA1, LineA2, LineA3, LineB1, LineU1, LineU2, LineS1, LineB2, LineU3, BadLine}

\* the sequences over S of length at most n
\* records flagged as injected compact summaries, with a prompt and with a
\* failed tool result; records whose timestamp does not parse; a tool call
\* with an empty input
CompactEntry(uuid, ts, content) ==
  [UserEntry(uuid, ts, content) EXCEPT !.IsCompactSummary = TRUE]

LineC1 == JsonLine(CompactEntry("c1", 4, StringContent(TxtHi)))
LineC2 ==
  JsonLine(CompactEntry("c2", 1,
                        ArrayContent(<<ToolResultBlock("t1", ResultString(TxtErr), TRUE)>>)))
LineU0 == JsonLine(UserEntry("u11", 0, StringContent(TxtHi)))
LineT0 ==
  JsonLine(AssistantEntry("u12", 0, "m4", <<ToolUseBlock("Write", "t4", NilMap)>>,
                          rawUsage(1, 1, 0, 0)))
LineU4 == JsonLine(UserEntry("u13", 2, StringContent(TxtHi)))

\* tool calls on files: the same file read twice, a file written and
\* edited, a tool that is none of the three, a file_path that is a number
\* and a call without input; assistant records without a message and
\* without a message identifier
LineR1 ==
  JsonLine(AssistantEntry("u21", 1, "m5",
                          <<ToolUseBlock("Read", "t5", [file_path |-> StrParam("/f")])>>,
                          rawUsage(1, 1, 0, 0)))
LineR2 ==
  JsonLine(AssistantEntry("u22", 2, "m6",
                          <<ToolUseBlock("Read", "t6", [file_path |-> StrParam("/f")]),
                            ToolUseBlock("Read", "t7", [file_path |-> StrParam("/g")]),
                            ToolUseBlock("Grep", "t8", [file_path |-> StrParam("/h")])>>,
                          rawUsage(1, 1, 0, 0)))
LineW1 ==
  JsonLine(AssistantEntry("u23", 3, "m7",
                          <<ToolUseBlock("Write", "t9", [file_path |-> StrParam("/f")]),
                            ToolUseBlock("Edit", "t10", [file_path |-> StrParam("/g")]),
                            ToolUseBlock("Read", "t11", [file_path |-> NumParam]),
                            ToolUseBlock("Write", "t12", NilMap)>>,
                          rawUsage(1, 1, 0, 0)))
LineN1 ==
  JsonLine([ZeroEntry EXCEPT !.Type = "assistant", !.UUID = "u24", !.Timestamp = 2])
LineN2 ==
  JsonLine([AssistantEntry("u25", 4, "",
                           <<TextBlock(TxtA),
                             ToolUseBlock("Read", "t13", [file_path |-> StrParam("/x")]),
                             ToolUseBlock("Bash", "t14", NilMap)>>,
                           rawUsage(3, 3, 1, 1))
              EXCEPT !.Message.Model = "haiku"])

ToolPool == {LineR1, LineR2, LineW1, LineN1, LineN2, LineU4, TooLongLine}

RecordPool == {LineC1, LineC2, LineU0, LineT0, LineU2, LineU4, LineA2}

SeqsUpTo(S, n) == UNION {[1..k -> S] : k \in 0..n}

NotParsed == [done |-> FALSE, path |-> PathA1, lines |-> <<>>, err |-> FALSE,
              sess |-> [Info |-> NewInfo(PathA1), Events |-> <<>>]]

(***************************************************************************)
(* The file system below the store's base directory.                        *)
(***************************************************************************)
FileNotes == <<"n", "o", "t", "e", "s", ".", "t", "x", "t">>
PathNotes == PathOf(DirA, FileNotes)

\* a revision of message m1 whose only text is blank
LineBlank ==
  JsonLine(AssistantEntry("u8", 2, "m1", <<TextBlock(TxtBlank)>>, rawUsage(1, 2, 0, 0)))

\* the lines the external tool appends to a transcript
StorePool(p) ==
  CASE p = PathA1 -> {LineBlank, LineU1}
    [] p = PathA2 -> {LineU1}
    [] OTHER -> {}

\* the transcripts at start-up: s1.jsonl holds one record, s2.jsonl is
\* created later
InitialDisks ==
  {[p \in Paths |-> IF p = PathA1 THEN <<LineA1>> ELSE NoFile]}

\* the base directory, as a key of dirs
BaseDir == <<>>
ProjectDirs == {DirA, DirB}
\* the directories at start-up: the base directory and one project
InitialDirs ==
  [d \in {BaseDir} \cup ProjectDirs |-> IF d = DirB THEN "absent" ELSE "ok"]

\* os.ReadDir(s.baseDir), sorted by name: the project directories that
\* exist and one plain file
BaseDirEntries(ds) ==
  (IF ds[DirA] # "absent" THEN <<[name |-> DirA, isDir |-> TRUE]>> ELSE <<>>)
    \o (IF ds[DirB] # "absent" THEN <<[name |-> DirB, isDir |-> TRUE]>> ELSE <<>>)
    \o <<[name |-> <<".", "l", "o", "g">>, isDir |-> FALSE]>>

\* os.ReadDir(projectDir), sorted by name: a plain file, the transcripts
\* that exist, and a subdirectory
ProjectDirEntries(dirName, d) ==
  LET file(p) == IF d[p] # NoFile THEN <<[name |-> p.base, isDir |-> FALSE]>>
                 ELSE <<>>
  IN CASE dirName = DirA ->
            <<[name |-> FileNotes, isDir |-> FALSE]>>
              \o file(PathA1) \o file(PathA2)
              \o <<[name |-> <<"s", "u", "b">>, isDir |-> TRUE]>>
       [] dirName = DirB -> file(PathB1)
       [] OTHER -> <<>>

(***************************************************************************)
(* store (part_003)                                                         *)
(***************************************************************************)
\* make(chan struct{}, 1), line 40
UpdatesCap == 1
\* 500*time.Millisecond, line 116
DebounceMs == 500
\* the step of the model's clock
TickMs == DebounceMs \div 2

\* a *Session: the address of the object and, for reading through it, the
\* fields of the object.  An object gets its address when its pointer is
\* first shared (stored in the index); the nil pointer and the objects that
\* only the local variable of their builder refers to have address 0
NilSession == [nil |-> TRUE, addr |-> 0, Info |-> NewInfo(PathA1), Events |-> <<>>]
SessionPtr(sess) ==
  [nil |-> FALSE, addr |-> sess.addr, Info |-> sess.Info, Events |-> sess.Events]
\* sess := &Session{...}, part_002 line 155: a new object, at address a
NewSession(sess, a) ==
  [nil |-> FALSE, addr |-> a, Info |-> sess.Info, Events |-> sess.Events]
\* the object a pointer refers to
Object(ptr) == [addr |-> ptr.addr, Info |-> ptr.Info, Events |-> ptr.Events]

\* sync.RWMutex: Lock and RLock can be taken
\* a Lock that does not wait for the readers
CanLockAmongReaders(m) == ~m.writer

CanLock(m) == ~m.writer /\ m.readers = 0
CanRLock(m) == ~m.writer

\* a put that overwrites the summary of the stored entry in part
PutSessionInPlace(index, sess) ==
  IF sess.Info.ID \in DOMAIN index
  THEN MapPut(index, sess.Info.ID,
              [sess EXCEPT !.Info.LastUpdate = index[sess.Info.ID].Info.LastUpdate])
  ELSE MapPut(index, sess.Info.ID, sess)

\* *s.sessions[id] = *sess: the object of the index is overwritten
PutSessionOverwrite(index, sess) ==
  IF sess.Info.ID \in DOMAIN index
  THEN MapPut(index, sess.Info.ID,
              [sess EXCEPT !.addr = index[sess.Info.ID].addr])
  ELSE MapPut(index, sess.Info.ID, sess)

\* s.sessions[sess.Info.ID] = sess, lines 83 and 122
PutSession(index, sess) == MapPut(index, sess.Info.ID, sess)

\* a Scan that returns the error of ParseSessionFile
ReturnError(sc) == [sc EXCEPT !.pc = "done", !.err = TRUE]

\* Scan, lines 75-77: continue with the next file
SkipFile(sc) == [sc EXCEPT !.files = Tail(@)]

\* a Scan that keeps every parse that opened the file
ScanKeepsEmpty(err, sess) == ~err

\* Scan, lines 75-80: the parse is kept
ScanKeeps(err, sess) == ~err /\ Len(sess.Events) # 0

\* a callback with no test at line 118
WatchKeepsAll(err, sess) == TRUE

\* a callback that keeps every parse that opened the file
WatchKeepsEmpty(err, sess) == ~err

\* Watch, line 118: the parse is kept
WatchKeeps(err, sess) == ~(err \/ Len(sess.Events) = 0)

\* a send that the channel's capacity does not bound
SignalUpdateUnbounded(n) == n + 1

\* a callback that does not publish
SignalUpdateNever(n) == n

\* Watch, lines 126-129: the non-blocking send on s.updates
SignalUpdate(n) == IF n < UpdatesCap THEN n + 1 ELSE n

\* a less function that puts the older summary first
OlderFirst(a, b) == Before(a.LastUpdate, b.LastUpdate)

\* GetSessions, lines 153-155: the less function handed to sort.Slice
NewerFirst(a, b) == After(a.LastUpdate, b.LastUpdate)

Swap(s, i, j) == [s EXCEPT ![i] = s[j], ![j] = s[i]]

\* sort.Slice on a slice of at most 12 elements is an insertion sort: the
\* element at j moves down while it is less than the one before it
RECURSIVE SiftDown(_, _)
SiftDown(s, j) ==
  IF j > 1 /\ NewerFirst(s[j], s[j - 1])
  THEN SiftDown(Swap(s, j, j - 1), j - 1)
  ELSE s

RECURSIVE SortFrom(_, _)
SortFrom(s, i) == IF i > Len(s) THEN s ELSE SortFrom(SiftDown(s, i), i + 1)

SortSlice(s) == SortFrom(s, 2)

\* GetSessions, lines 144-158: the lists a call can return. The summaries
\* are collected by ranging over the map, in any order, and sorted.
GetSessions(index) ==
  {SortSlice([i \in 1..Len(o) |-> index[o[i]].Info]) : o \in Orders(DOMAIN index)}

\* GetSession, lines 161-165
GetSession(index, id) ==
  IF id \in DOMAIN index THEN SessionPtr(index[id]) ELSE NilSession

\* refreshSessions, part_001 lines 394-402: the project filter
projectFilter == <<>>
FilterSessions(list, filter) ==
  IF filter # <<>>
  THEN SelectSeq(list, LAMBDA i : i.ProjectName = filter \/ i.ProjectDir = filter)
  ELSE list

RemoveAt(seq, i) == SubSeq(seq, 1, i - 1) \o SubSeq(seq, i + 1, Len(seq))

NoTimer == [armed |-> FALSE, path |-> PathA1, remaining |-> 0]
NoBurst == [age |-> -1, reparses |-> 0]
ScanIdle == [pc |-> "start", entries |-> <<>>, projectDir |-> <<>>,
             files |-> <<>>, sess |-> NilSession, err |-> FALSE]

\* the view modes, part_001 lines 14-19
viewSessions == 0
viewDetail == 1
viewOverview == 2
viewEvent == 3

\* m.selectedEvent: nil, or a copy of an event of the timeline
NoEvent == [nil |-> TRUE, Event |-> ZeroEvent]
EventPtr(evt) == [nil |-> FALSE, Event |-> evt]

\* the Model of NewModel, before the program runs. msg is the message that
\* Update is handling while it refreshes; from records, while the summary
\* is shown, the view it was opened from. The window size message is left
\* out: height stays 0
UIOff == [pc |-> "off", waiters |-> 0, msgs |-> 0, sessions |-> <<>>,
          cursor |-> 0, selectedSession |-> NilSession,
          mode |-> viewSessions, detailCursor |-> 0, autoFollow |-> FALSE,
          selectedEvent |-> NoEvent, height |-> 0, msg |-> "",
          from |-> viewSessions]

\* pageSize, part_001 lines 383-389
pageSize(m) == IF m.height \div 2 < 5 THEN 5 ELSE m.height \div 2

Max(a, b) == IF a > b THEN a ELSE b
\* a page down that does not stop at the last line
PastLast(a, b) == b
Min(a, b) == IF a < b THEN a ELSE b

LastIndex(events) == IF Len(events) - 1 > 0 THEN Len(events) - 1 ELSE 0

\* handleKey, part_001 lines 157-338, on a key; sess is what
\* m.store.GetSession returns for the session under the cursor. The scroll
\* offsets of the summary and of the event view are left out.
handleKey(m, key, sess) ==
  CASE key \in {"esc", "left"} ->
         CASE m.mode = viewDetail ->
                [m EXCEPT !.mode = viewSessions, !.selectedSession = NilSession,
                          !.detailCursor = 0, !.autoFollow = FALSE]
           [] m.mode = viewOverview ->
                IF ~m.selectedSession.nil THEN [m EXCEPT !.mode = viewDetail]
                ELSE [m EXCEPT !.mode = viewSessions]
           [] m.mode = viewEvent ->
                [m EXCEPT !.mode = viewDetail, !.selectedEvent = NoEvent]
           [] OTHER -> m
    [] key \in {"j", "down"} ->
         CASE m.mode = viewSessions ->
                IF m.cursor < Len(m.sessions) - 1 THEN [m EXCEPT !.cursor = @ + 1] ELSE m
           [] m.mode = viewDetail ->
                IF ~m.selectedSession.nil
                     /\ m.detailCursor < Len(m.selectedSession.Events) - 1
                THEN [m EXCEPT !.detailCursor = @ + 1] ELSE m
           [] OTHER -> m
    [] key \in {"k", "up"} ->
         CASE m.mode = viewSessions ->
                IF m.cursor > 0 THEN [m EXCEPT !.cursor = @ - 1] ELSE m
           [] m.mode = viewDetail ->
                IF m.detailCursor > 0
                THEN [m EXCEPT !.detailCursor = @ - 1, !.autoFollow = FALSE] ELSE m
           [] OTHER -> m
    [] key \in {"enter", "right"} ->
         CASE m.mode = viewSessions ->
                IF m.cursor < Len(m.sessions) /\ ~sess.nil
                THEN [m EXCEPT !.selectedSession = sess,
                               !.detailCursor = LastIndex(sess.Events),
                               !.autoFollow = TRUE, !.mode = viewDetail]
                ELSE m
           [] m.mode = viewDetail ->
                IF ~m.selectedSession.nil
                     /\ m.detailCursor < Len(m.selectedSession.Events)
                THEN [m EXCEPT !.selectedEvent =
                                  EventPtr(m.selectedSession.Events[m.detailCursor + 1]),
                               !.mode = viewEvent]
                ELSE m
           [] OTHER -> m
    [] key = "s" ->
         CASE m.mode = viewSessions ->
                IF m.cursor < Len(m.sessions) /\ ~sess.nil
                THEN [m EXCEPT !.selectedSession = sess, !.mode = viewOverview]
                ELSE m
           [] m.mode = viewDetail ->
                IF ~m.selectedSession.nil THEN [m EXCEPT !.mode = viewOverview] ELSE m
           [] OTHER -> m
    [] key = "f" ->
         IF m.mode = viewDetail
         THEN IF ~m.autoFollow /\ ~m.selectedSession.nil
              THEN [m EXCEPT !.autoFollow = TRUE,
                             !.detailCursor = LastIndex(m.selectedSession.Events)]
              ELSE [m EXCEPT !.autoFollow = ~@]
         ELSE m
    [] key \in {"g", "home"} ->
         CASE m.mode = viewSessions -> [m EXCEPT !.cursor = 0]
           [] m.mode = viewDetail -> [m EXCEPT !.detailCursor = 0]
           [] OTHER -> m
    [] key \in {"G", "end"} ->
         CASE m.mode = viewSessions ->
                IF Len(m.sessions) > 0 THEN [m EXCEPT !.cursor = Len(m.sessions) - 1]
                ELSE m
           [] m.mode = viewDetail ->
                IF ~m.selectedSession.nil /\ Len(m.selectedSession.Events) > 0
                THEN [m EXCEPT !.detailCursor = Len(m.selectedSession.Events) - 1]
                ELSE m
           [] OTHER -> m
    [] key \in {"shift+up", "pgup"} ->
         CASE m.mode = viewSessions ->
                [m EXCEPT !.cursor = Max(0, m.cursor - pageSize(m))]
           [] m.mode = viewDetail ->
                [m EXCEPT !.detailCursor = Max(0, m.detailCursor - pageSize(m)),
                          !.autoFollow = FALSE]
           [] OTHER -> m
    [] key \in {"shift+down", "pgdown"} ->
         CASE m.mode = viewSessions ->
                IF Len(m.sessions) > 0
                THEN [m EXCEPT !.cursor =
                                  Min(Len(m.sessions) - 1, m.cursor + pageSize(m))]
                ELSE m
           [] m.mode = viewDetail ->
                IF ~m.selectedSession.nil /\ Len(m.selectedSession.Events) > 0
                THEN [m EXCEPT !.detailCursor =
                                  Min(Len(m.selectedSession.Events) - 1,
                                      m.detailCursor + pageSize(m))]
                ELSE m
           [] OTHER -> m
    [] OTHER -> m

\* handleMouse, part_001 lines 341-380: the wheel
handleMouse(m, button) ==
  CASE button = "WheelUp" ->
         CASE m.mode = viewSessions ->
                IF m.cursor > 0 THEN [m EXCEPT !.cursor = @ - 1] ELSE m
           [] m.mode = viewDetail ->
                IF m.detailCursor > 0
                THEN [m EXCEPT !.detailCursor = @ - 1, !.autoFollow = FALSE] ELSE m
           [] OTHER -> m
    [] button = "WheelDown" ->
         CASE m.mode = viewSessions ->
                IF m.cursor < Len(m.sessions) - 1 THEN [m EXCEPT !.cursor = @ + 1] ELSE m
           [] m.mode = viewDetail ->
                IF ~m.selectedSession.nil
                     /\ m.detailCursor < Len(m.selectedSession.Events) - 1
                THEN [m EXCEPT !.detailCursor = @ + 1] ELSE m
           [] OTHER -> m
    [] OTHER -> m

\* the watcher NewStore creates, and the loop of Watch
WatcherOpen == [closed |-> FALSE, returned |-> FALSE]

StoreIdle ==
  /\ watcher = WatcherOpen
  /\ sessions = <<>>
  /\ mu = [writer |-> FALSE, readers |-> 0]
  /\ updates = 0
  /\ watched = {}
  /\ fsEvents = <<>>
  /\ debounce = NoTimer
  /\ callbacks = <<>>
  /\ scan = ScanIdle
  /\ ui = UIOff
  /\ burst = [p \in Paths |-> NoBurst]
  /\ writes = 0

\* what ParseSessionFile returns for each file of d: computed once per
\* content, since the parser is a function of the path and the lines
\* the pointers to shared Session objects: the index and the Model's
\* selectedSession
Holders ==
  {sessions[id] : id \in DOMAIN sessions} \cup {Object(ui.selectedSession)}
\* the addresses in use once the entry of id is replaced
InUse(id) ==
  {sessions[j].addr : j \in DOMAIN sessions \ {id}} \cup {ui.selectedSession.addr}
\* addresses are names: the object stored under id gets the least address
\* that no other shared pointer holds
NewAddr(id) ==
  CHOOSE a \in 1..(Cardinality(InUse(id)) + 1) :
    a \notin InUse(id) /\ \A b \in 1..(a - 1) : b \in InUse(id)
\* the object of a local pointer, as it is shared
Shared(ptr) == Object(NewSession(ptr, NewAddr(ptr.Info.ID)))

\* the contents of the files of d added to the record h
Recorded(h, d) ==
  [p \in Paths |->
     IF OpenFails(d[p]) \/ (h[p] # <<>> /\ h[p][Len(h[p])].lines = d[p])
     THEN h[p]
     ELSE Append(h[p], [lines |-> d[p], parses |-> ParseSessionFile(p, d[p])])]

ParseResults(d) ==
  [p \in Paths |-> IF OpenFails(d[p]) THEN {} ELSE ParseSessionFile(p, d[p])]

Init ==
  /\ dirs = InitialDirs
  /\ disk \in InitialDisks
  /\ parseOf = ParseResults(disk)
  /\ history = Recorded([p \in Paths |-> <<>>], disk)
  /\ parsed = NotParsed
  /\ StoreIdle

(* ---- the external tool and the file system ---- *)

Notify(p, op) ==
  IF p.dir \in watched THEN Append(fsEvents, [Name |-> p, Op |-> op]) ELSE fsEvents

\* the external tool appends a line to a transcript, creating it if needed
FileWrite(p, line) ==
  /\ writes < MaxWrites
  /\ writes' = writes + 1
  /\ disk[p] # Locked
  /\ IF disk[p] = NoFile
     THEN /\ disk' = [disk EXCEPT ![p] = <<line>>]
          /\ fsEvents' = Notify(p, "CREATE")
     ELSE /\ disk' = [disk EXCEPT ![p] = Append(@, line)]
          /\ fsEvents' = Notify(p, "WRITE")
  /\ parseOf' = ParseResults(disk')
  /\ history' = Recorded(history, disk')
  /\ UNCHANGED <<watcher, dirs, parsed, sessions, mu, updates, watched, debounce, callbacks,
                 scan, ui, burst>>

\* the external tool removes a transcript or renames it to a name that is
\* no transcript's
FileRemove(p) ==
  /\ writes < MaxWrites
  /\ writes' = writes + 1
  /\ ~OpenFails(disk[p])
  /\ disk' = [disk EXCEPT ![p] = NoFile]
  /\ \E op \in {"REMOVE", "RENAME"} : fsEvents' = Notify(p, op)
  /\ parseOf' = ParseResults(disk')
  /\ history' = Recorded(history, disk')
  /\ UNCHANGED <<watcher, dirs, parsed, sessions, mu, updates, watched, debounce, callbacks,
                 scan, ui, burst>>

\* a change the watcher reports and Watch ignores: a write to a file that
\* is no transcript, or a change of a transcript's mode
FileOther ==
  /\ writes < MaxWrites
  /\ writes' = writes + 1
  /\ \/ fsEvents' = Notify(PathNotes, "WRITE")
     \/ fsEvents' = Notify(PathA1, "CHMOD")
  /\ DirA \in watched
  /\ UNCHANGED <<watcher, dirs, disk, parseOf, history, parsed, sessions, mu, updates, watched, debounce, callbacks,
                 scan, ui, burst>>

(* ---- main and Store.Scan, lines 47-89 ---- *)

\* os.ReadDir(s.baseDir), lines 48-51
ScanReadDir ==
  /\ scan.pc = "start"
  /\ scan' = IF dirs[BaseDir] # "ok"
             THEN [scan EXCEPT !.pc = "done", !.err = TRUE]
             ELSE [scan EXCEPT !.pc = "dirs", !.entries = BaseDirEntries(dirs)]
  /\ UNCHANGED <<watcher, dirs, disk, parseOf, history, parsed, sessions, mu, updates, watched, fsEvents, debounce,
                 callbacks, ui, burst, writes>>

\* one iteration of the loop over the base directory, lines 53-66, or its end
ScanNextDir ==
  /\ scan.pc = "dirs"
  /\ IF scan.entries = <<>>
     THEN /\ scan' = [scan EXCEPT !.pc = "done"]
          /\ UNCHANGED watched
     ELSE LET entry == Head(scan.entries) IN
          IF ~entry.isDir
          THEN /\ scan' = [scan EXCEPT !.entries = Tail(@)]
               /\ UNCHANGED watched
          ELSE IF dirs[entry.name] # "ok"
          THEN /\ scan' = [scan EXCEPT !.entries = Tail(@)]
               /\ UNCHANGED watched
          ELSE /\ watched' = watched \cup {entry.name}
               /\ scan' = [scan EXCEPT !.entries = Tail(@),
                                       !.projectDir = entry.name,
                                       !.files = ProjectDirEntries(entry.name, disk),
                                       !.pc = "files"]
  /\ UNCHANGED <<watcher, dirs, disk, parseOf, history, parsed, sessions, mu, updates, fsEvents, debounce, callbacks,
                 ui, burst, writes>>

\* one iteration of the loop over a project directory, lines 68-80, or its end
ScanNextFile ==
  /\ scan.pc = "files"
  /\ IF scan.files = <<>>
     THEN scan' = [scan EXCEPT !.pc = "dirs"]
     ELSE LET f == Head(scan.files)
              path == PathOf(scan.projectDir, f.name)
          IN IF f.isDir \/ ~HasSuffix(f.name, Jsonl)
             THEN scan' = [scan EXCEPT !.files = Tail(@)]
             ELSE IF OpenFails(disk[path])
             THEN scan' = SkipFile(scan)
             ELSE \E sess \in parseOf[path] :
                    IF ScanKeeps(FALSE, sess)
                    THEN scan' = [scan EXCEPT !.files = Tail(@), !.pc = "lock",
                                              !.sess = NewSession(sess, 0)]
                    ELSE scan' = [scan EXCEPT !.files = Tail(@)]
  /\ UNCHANGED <<watcher, dirs, disk, parseOf, history, parsed, sessions, mu, updates, watched, fsEvents, debounce,
                 callbacks, ui, burst, writes>>

\* s.mu.Lock(), line 82
ScanLock ==
  /\ scan.pc = "lock"
  /\ CanLock(mu)
  /\ mu' = [mu EXCEPT !.writer = TRUE]
  /\ scan' = [scan EXCEPT !.pc = "store"]
  /\ UNCHANGED <<watcher, dirs, disk, parseOf, history, parsed, sessions, updates, watched, fsEvents, debounce,
                 callbacks, ui, burst, writes>>

\* lines 83-84
ScanStore ==
  /\ scan.pc = "store"
  /\ sessions' = PutSession(sessions, Shared(scan.sess))
  /\ mu' = [mu EXCEPT !.writer = FALSE]
  /\ scan' = [scan EXCEPT !.pc = "files", !.sess = NilSession]
  /\ UNCHANGED <<watcher, dirs, disk, parseOf, history, parsed, updates, watched, fsEvents, debounce, callbacks,
                 ui, burst, writes>>

\* a main that exits when Scan returns an error
ExitOnError(err) == ~err

\* main, README.md lines 133-135: an error of Scan is printed as a warning
MainGoesOn(err) == TRUE

\* main after Scan (README.md lines 132-146): Watch starts its goroutine,
\* and the program runs the Model, whose Init (part_001 lines 66-71) issues
\* loadSessions, which returns its message at once, and watchForUpdates
MainStart ==
  /\ scan.pc = "done"
  /\ MainGoesOn(scan.err)
  /\ scan' = [scan EXCEPT !.pc = "running"]
  /\ ui' = [ui EXCEPT !.pc = "idle", !.msgs = 1, !.waiters = 1]
  /\ UNCHANGED <<watcher, dirs, disk, parseOf, history, parsed, sessions, mu, updates, watched, fsEvents, debounce,
                 callbacks, burst, writes>>

(* ---- Store.Watch, lines 93-141 ---- *)

\* one iteration of the loop of Watch on an event, lines 100-130
WatchEvent ==
  /\ scan.pc = "running"
  /\ ~watcher.closed
  /\ ~watcher.returned
  /\ fsEvents # <<>>
  /\ fsEvents' = Tail(fsEvents)
  /\ LET event == Head(fsEvents) IN
     IF ~HasSuffix(event.Name.base, Jsonl) \/ event.Op \notin {"WRITE", "CREATE"}
     THEN UNCHANGED <<debounce, burst>>
     ELSE /\ debounce' = [armed |-> TRUE, path |-> event.Name, remaining |-> DebounceMs]
          /\ burst' = [burst EXCEPT ![event.Name] =
                         IF @.age < 0 \/ @.age >= DebounceMs
                         THEN [age |-> 0, reparses |-> 0]
                         ELSE [@ EXCEPT !.age = 0]]
  /\ UNCHANGED <<watcher, dirs, disk, parseOf, history, parsed, sessions, mu, updates, watched, callbacks, scan, ui,
                 writes>>

TimerDue == debounce.armed /\ debounce.remaining <= 0

\* time passes; a timer fires when it is due
Tick ==
  /\ ~TimerDue
  /\ debounce.armed \/ \E p \in Paths : burst[p].age \in 0..(DebounceMs - 1)
  /\ debounce' = IF debounce.armed
                 THEN [debounce EXCEPT !.remaining = @ - TickMs] ELSE debounce
  /\ burst' = [p \in Paths |->
                 IF burst[p].age \in 0..(DebounceMs - 1)
                 THEN [burst[p] EXCEPT !.age = @ + TickMs] ELSE burst[p]]
  /\ UNCHANGED <<watcher, dirs, disk, parseOf, history, parsed, sessions, mu, updates, watched, fsEvents, callbacks,
                 scan, ui, writes>>

\* the timer fires: time.AfterFunc starts the callback in its own goroutine
TimerFire ==
  /\ TimerDue
  /\ debounce' = [debounce EXCEPT !.armed = FALSE]
  /\ callbacks' = Append(callbacks, [path |-> debounce.path, pc |-> "parse",
                                     sess |-> NilSession])
  /\ burst' = [burst EXCEPT ![debounce.path].reparses = IF @ < 2 THEN @ + 1 ELSE @]
  /\ UNCHANGED <<watcher, dirs, disk, parseOf, history, parsed, sessions, mu, updates, watched, fsEvents, scan, ui,
                 writes>>

\* the callback, lines 117-120
CallbackParse(i) ==
  /\ callbacks[i].pc = "parse"
  /\ LET path == callbacks[i].path IN
     IF OpenFails(disk[path])
     THEN callbacks' = IF WatchKeeps(TRUE, NilSession)
                       THEN [callbacks EXCEPT ![i].pc = "lock"]
                       ELSE RemoveAt(callbacks, i)
     ELSE \E sess \in parseOf[path] :
            callbacks' = IF WatchKeeps(FALSE, sess)
                         THEN [callbacks EXCEPT ![i].pc = "lock",
                                                ![i].sess = NewSession(sess, 0)]
                         ELSE RemoveAt(callbacks, i)
  /\ UNCHANGED <<watcher, dirs, disk, parseOf, history, parsed, sessions, mu, updates, watched, fsEvents, debounce,
                 scan, ui, burst, writes>>

\* s.mu.Lock(), line 121
CallbackLock(i) ==
  /\ callbacks[i].pc = "lock"
  /\ CanLock(mu)
  /\ mu' = [mu EXCEPT !.writer = TRUE]
  /\ callbacks' = [callbacks EXCEPT ![i].pc = "store"]
  /\ UNCHANGED <<watcher, dirs, disk, parseOf, history, parsed, sessions, updates, watched, fsEvents, debounce,
                 scan, ui, burst, writes>>

\* lines 122-123
CallbackStore(i) ==
  /\ callbacks[i].pc = "store"
  /\ sessions' = PutSession(sessions, Shared(callbacks[i].sess))
  /\ mu' = [mu EXCEPT !.writer = FALSE]
  /\ callbacks' = [callbacks EXCEPT ![i].pc = "signal"]
  /\ UNCHANGED <<watcher, dirs, disk, parseOf, history, parsed, updates, watched, fsEvents, debounce, scan, ui,
                 burst, writes>>

\* lines 126-129, and the callback's return
CallbackSignal(i) ==
  /\ callbacks[i].pc = "signal"
  /\ updates' = SignalUpdate(updates)
  /\ callbacks' = RemoveAt(callbacks, i)
  /\ UNCHANGED <<watcher, dirs, disk, parseOf, history, parsed, sessions, mu, watched, fsEvents, debounce, scan, ui,
                 burst, writes>>

\* a loop that goes on when a channel of the watcher is closed
GoesOnWhenClosed(w) == w

\* Watch, lines 102-104 and 133-135: a receive that yields !ok
OnClosed(w) == [w EXCEPT !.returned = TRUE]

\* the loop of Watch finds a channel of the watcher closed
WatchReturn ==
  /\ watcher.closed
  /\ ~watcher.returned
  /\ watcher' = OnClosed(watcher)
  /\ UNCHANGED <<dirs, disk, parseOf, history, parsed, sessions, mu, updates, watched,
                 fsEvents, debounce, callbacks, scan, ui, burst, writes>>

\* handleKey, q or ctrl+c, lines 166-167: tea.Quit ends the program's Run
UIQuit ==
  /\ ui.pc = "idle"
  /\ ui' = [ui EXCEPT !.pc = "quit"]
  /\ UNCHANGED <<watcher, dirs, disk, parseOf, history, parsed, sessions, mu, updates, watched,
                 fsEvents, debounce, callbacks, scan, burst, writes>>

\* main returns: the deferred Store.Close, lines 168-170. The watcher
\* drops its watches and closes Events and Errors with nothing left to
\* receive
Close ==
  /\ ui.pc = "quit"
  /\ ~watcher.closed
  /\ watcher' = [watcher EXCEPT !.closed = TRUE]
  /\ watched' = {}
  /\ fsEvents' = <<>>
  /\ UNCHANGED <<dirs, disk, parseOf, history, parsed, sessions, mu, updates, debounce,
                 callbacks, scan, ui, burst, writes>>

(* ---- the Model's subscription (part_001) ---- *)

\* watchForUpdates, lines 421-427: a waiting command receives
UIReceive ==
  /\ ui.waiters > 0
  /\ updates > 0
  /\ updates' = updates - 1
  /\ ui' = [ui EXCEPT !.waiters = @ - 1, !.msgs = @ + 1]
  /\ UNCHANGED <<watcher, dirs, disk, parseOf, history, parsed, sessions, mu, watched, fsEvents, debounce, callbacks,
                 scan, burst, writes>>

\* the end of Update on a sessionsUpdatedMsg, line 91
\* and the return of handleKey from its call of refreshSessions, line 304
UpdateReturns(m) ==
  IF m.msg = "r" THEN [m EXCEPT !.pc = "idle", !.msg = ""]
  ELSE [m EXCEPT !.pc = "idle", !.msg = "", !.msgs = @ - 1, !.waiters = @ + 1,
                 !.detailCursor =
                    IF m.mode = viewDetail /\ ~m.selectedSession.nil /\ m.autoFollow
                    THEN LastIndex(m.selectedSession.Events) ELSE @]

\* Update on a sessionsUpdatedMsg, lines 85-86: refreshSessions calls
\* GetSessions, which takes the read lock
UIRefreshBegin ==
  /\ ui.pc = "idle"
  /\ ui.msgs > 0
  /\ CanRLock(mu)
  /\ mu' = [mu EXCEPT !.readers = @ + 1]
  /\ ui' = [ui EXCEPT !.pc = "list", !.msg = "update"]
  /\ UNCHANGED <<watcher, dirs, disk, parseOf, history, parsed, sessions, updates, watched, fsEvents, debounce,
                 callbacks, scan, burst, writes>>

\* GetSessions returns; refreshSessions, lines 392-408
UIRefreshList ==
  /\ ui.pc = "list"
  /\ mu' = [mu EXCEPT !.readers = @ - 1]
  /\ \E list \in GetSessions(sessions) :
       LET shown == FilterSessions(list, projectFilter)
           cursor == IF ui.cursor >= Len(shown)
                     THEN (IF Len(shown) - 1 > 0 THEN Len(shown) - 1 ELSE 0)
                     ELSE ui.cursor
           m == [ui EXCEPT !.sessions = shown, !.cursor = cursor]
       IN ui' = IF m.selectedSession.nil THEN UpdateReturns(m)
                ELSE [m EXCEPT !.pc = "selected"]
  /\ UNCHANGED <<watcher, dirs, disk, parseOf, history, parsed, sessions, updates, watched, fsEvents, debounce,
                 callbacks, scan, burst, writes>>

\* refreshSessions, line 410: GetSession takes the read lock
UIRefreshSelected ==
  /\ ui.pc = "selected"
  /\ CanRLock(mu)
  /\ mu' = [mu EXCEPT !.readers = @ + 1]
  /\ ui' = [ui EXCEPT !.pc = "get"]
  /\ UNCHANGED <<watcher, dirs, disk, parseOf, history, parsed, sessions, updates, watched, fsEvents, debounce,
                 callbacks, scan, burst, writes>>

\* GetSession returns; refreshSessions, lines 411-413
UIRefreshGet ==
  /\ ui.pc = "get"
  /\ mu' = [mu EXCEPT !.readers = @ - 1]
  /\ LET updated == GetSession(sessions, ui.selectedSession.Info.ID) IN
     ui' = UpdateReturns(IF ~updated.nil
                         THEN [ui EXCEPT !.selectedSession = updated] ELSE ui)
  /\ UNCHANGED <<watcher, dirs, disk, parseOf, history, parsed, sessions, updates, watched, fsEvents, debounce,
                 callbacks, scan, burst, writes>>

\* handleKey, enter in the sessions list, lines 254-258: GetSession takes
\* the read lock
UIOpenBegin ==
  /\ ui.pc = "idle"
  /\ ui.mode = viewSessions
  /\ ui.cursor < Len(ui.sessions)
  /\ CanRLock(mu)
  /\ mu' = [mu EXCEPT !.readers = @ + 1]
  /\ ui' = [ui EXCEPT !.pc = "open"]
  /\ UNCHANGED <<watcher, dirs, disk, parseOf, history, parsed, sessions, updates, watched, fsEvents, debounce,
                 callbacks, scan, burst, writes>>

\* GetSession returns; handleKey, lines 259-264
UIOpen ==
  /\ ui.pc = "open"
  /\ mu' = [mu EXCEPT !.readers = @ - 1]
  /\ LET sess == GetSession(sessions, ui.sessions[ui.cursor + 1].ID) IN
     ui' = [handleKey(ui, "enter", sess) EXCEPT !.pc = "idle"]
  /\ UNCHANGED <<watcher, dirs, disk, parseOf, history, parsed, sessions, updates, watched, fsEvents, debounce,
                 callbacks, scan, burst, writes>>

\* handleKey, esc in the timeline, lines 171-175
UIBack ==
  /\ ui.pc = "idle"
  /\ ui.mode = viewDetail
  /\ ui' = handleKey(ui, "esc", NilSession)
  /\ UNCHANGED <<watcher, dirs, disk, parseOf, history, parsed, sessions, mu, updates, watched, fsEvents, debounce,
                 callbacks, scan, burst, writes>>

\* the keys the user presses; t is bound to nothing
Keys ==
  {"esc", "j", "k", "enter", "s", "f", "t", "g", "G", "pgup", "pgdown"}

Buttons == {"WheelUp", "WheelDown"}

\* what m.store.GetSession returns for the session under the cursor
UnderCursor ==
  IF ui.cursor < Len(ui.sessions)
  THEN GetSession(sessions, ui.sessions[ui.cursor + 1].ID)
  ELSE NilSession

\* the Model m that follows ui, with the view the summary was opened from
Opened(m) ==
  [m EXCEPT !.from = IF m.mode # viewOverview THEN viewSessions
                     ELSE IF ui.mode # viewOverview THEN ui.mode ELSE @]

\* Update on a key message, lines 79-80: handleKey as a whole, with its
\* call of GetSession under the read lock
UIKey(key) ==
  /\ ui.pc = "idle"
  /\ CanRLock(mu)
  /\ ui' = Opened(handleKey(ui, key, UnderCursor))
  /\ UNCHANGED <<watcher, dirs, disk, parseOf, history, parsed, sessions, mu, updates, watched,
                 fsEvents, debounce, callbacks, scan, burst, writes>>

\* handleKey on r, lines 303-304: refreshSessions calls GetSessions, which
\* takes the read lock
UIKeyRefresh ==
  /\ ui.pc = "idle"
  /\ CanRLock(mu)
  /\ mu' = [mu EXCEPT !.readers = @ + 1]
  /\ ui' = [ui EXCEPT !.pc = "list", !.msg = "r"]
  /\ UNCHANGED <<watcher, dirs, disk, parseOf, history, parsed, sessions, updates, watched,
                 fsEvents, debounce, callbacks, scan, burst, writes>>

\* Update on a mouse message, lines 82-83
UIMouse(button) ==
  /\ ui.pc = "idle"
  /\ ui' = handleMouse(ui, button)
  /\ UNCHANGED <<watcher, dirs, disk, parseOf, history, parsed, sessions, mu, updates, watched,
                 fsEvents, debounce, callbacks, scan, burst, writes>>

Next ==
  \/ \E p \in Paths : \E line \in StorePool(p) : FileWrite(p, line)
  \/ FileRemove(PathA1)
  \/ FileOther
  \/ ScanReadDir
  \/ ScanNextDir
  \/ ScanNextFile
  \/ ScanLock
  \/ ScanStore
  \/ MainStart
  \/ WatchEvent
  \/ Tick
  \/ TimerFire
  \/ \E i \in 1..Len(callbacks) : CallbackParse(i)
  \/ \E i \in 1..Len(callbacks) : CallbackLock(i)
  \/ \E i \in 1..Len(callbacks) : CallbackStore(i)
  \/ \E i \in 1..Len(callbacks) : CallbackSignal(i)
  \/ UIReceive
  \/ UIRefreshBegin
  \/ UIRefreshList
  \/ UIRefreshSelected
  \/ UIRefreshGet
  \/ UIOpenBegin
  \/ UIOpen
  \/ UIBack

Spec == Init /\ [][Next]_vars


(***************************************************************************)
(* SpecUI: the Model's views. Scan indexes two transcripts that do not      *)
(* change, the Model loads the list, and the user presses keys.             *)
(***************************************************************************)
UIDisk ==
  [p \in Paths |-> CASE p = PathA1 -> <<LineA1, LineU1>>
                     [] p = PathA2 -> <<LineU4>>
                     [] OTHER -> NoFile]

InitUI ==
  /\ dirs = InitialDirs
  /\ disk = UIDisk
  /\ parseOf = ParseResults(disk)
  /\ history = Recorded([p \in Paths |-> <<>>], disk)
  /\ parsed = NotParsed
  /\ StoreIdle

NextUI ==
  \/ ScanReadDir
  \/ ScanNextDir
  \/ ScanNextFile
  \/ ScanLock
  \/ ScanStore
  \/ MainStart
  \/ UIRefreshBegin
  \/ UIRefreshList
  \/ UIRefreshSelected
  \/ UIRefreshGet
  \/ UIKeyRefresh
  \/ \E key \in Keys : UIKey(key)
  \/ \E button \in Buttons : UIMouse(button)

SpecUI == InitUI /\ [][NextUI]_vars

\* SpecView: the Model's cursors while a transcript changes. Scan indexes
\* two transcripts, the external tool appends to s1.jsonl, the watcher
\* re-parses it, and the user presses keys, turns the wheel and asks for a
\* refresh.
NextView ==
  \/ \E line \in StorePool(PathA1) : FileWrite(PathA1, line)
  \/ ScanReadDir
  \/ ScanNextDir
  \/ ScanNextFile
  \/ ScanLock
  \/ ScanStore
  \/ MainStart
  \/ WatchEvent
  \/ Tick
  \/ TimerFire
  \/ \E i \in 1..Len(callbacks) : CallbackParse(i)
  \/ \E i \in 1..Len(callbacks) : CallbackLock(i)
  \/ \E i \in 1..Len(callbacks) : CallbackStore(i)
  \/ \E i \in 1..Len(callbacks) : CallbackSignal(i)
  \/ UIReceive
  \/ UIRefreshBegin
  \/ UIRefreshList
  \/ UIRefreshSelected
  \/ UIRefreshGet
  \/ UIKeyRefresh
  \/ \E key \in Keys : UIKey(key)
  \/ \E button \in Buttons : UIMouse(button)

SpecView == Init /\ [][NextView]_vars

(***************************************************************************)
(* SpecParse: ParseSessionFile applied to every transcript of at most       *)
(* MaxLines lines of ParsePool.                                             *)
(***************************************************************************)
InitParse ==
  /\ dirs = InitialDirs
  /\ \E lines \in SeqsUpTo(ParsePool, MaxLines) :
       disk = [p \in Paths |-> IF p = PathA1 THEN lines ELSE <<>>]
  /\ parseOf = ParseResults(disk)
  /\ history = Recorded([p \in Paths |-> <<>>], disk)
  /\ parsed = NotParsed
  /\ StoreIdle

\* a call ParseSessionFile(path) and its return
ParseFile(path) ==
  /\ ~parsed.done
  /\ IF OpenFails(disk[path])
     THEN parsed' = [NotParsed EXCEPT !.done = TRUE, !.path = path,
                                      !.lines = disk[path], !.err = TRUE]
     ELSE \E sess \in ParseSessionFile(path, disk[path]) :
            parsed' = [done |-> TRUE, path |-> path, lines |-> disk[path],
                       err |-> FALSE, sess |-> sess]
  /\ UNCHANGED <<watcher, dirs, disk, parseOf, history>> /\ UNCHANGED storeVars

NextParse == ParseFile(PathA1)

SpecParse == InitParse /\ [][NextParse]_vars

\* the same on transcripts with flagged and undated records
InitRecords ==
  /\ dirs = InitialDirs
  /\ \E lines \in SeqsUpTo(RecordPool, MaxLines) :
       disk = [p \in Paths |-> IF p = PathA1 THEN lines ELSE <<>>]
  /\ parseOf = ParseResults(disk)
  /\ history = Recorded([p \in Paths |-> <<>>], disk)
  /\ parsed = NotParsed
  /\ StoreIdle

NextRecords == ParseFile(PathA1)

SpecRecords == InitRecords /\ [][NextRecords]_vars

\* the same on transcripts with tool calls on files, assistant records
\* without message or identifier, and lines beyond the scanner's limit
InitTools ==
  /\ dirs = InitialDirs
  /\ \E lines \in SeqsUpTo(ToolPool, MaxLines) :
       disk = [p \in Paths |-> IF p = PathA1 THEN lines ELSE <<>>]
  /\ parseOf = ParseResults(disk)
  /\ history = Recorded([p \in Paths |-> <<>>], disk)
  /\ parsed = NotParsed
  /\ StoreIdle

NextTools == ParseFile(PathA1)

SpecTools == InitTools /\ [][NextTools]_vars

(***************************************************************************)
(* Start-up on any file system: the specification SpecScan runs Scan, the  *)
(* start of Watch and the Model's first refresh on a tree that does not    *)
(* change, for every state of the directories and every content of the     *)
(* transcripts below.                                                      *)
(***************************************************************************)
ScanContents(p) ==
  CASE p = PathA1 -> {<<LineA1>>, <<LineBlank>>, Locked}
    [] p = PathA2 -> {NoFile, <<LineU1>>, Locked}
    [] OTHER -> {NoFile, <<LineB1>>, <<LineA1, LineU1>>}

ScanDirs ==
  {ds \in [{BaseDir} \cup ProjectDirs -> {"ok", "unreadable", "absent"}] :
     ds[DirA] # "absent"}

InitScan ==
  /\ dirs \in ScanDirs
  /\ disk \in {d \in [Paths -> UNION {ScanContents(p) : p \in Paths}] :
                 /\ \A p \in Paths : d[p] \in ScanContents(p)
                 /\ dirs[DirB] = "absent" => d[PathB1] = NoFile}
  /\ parseOf = ParseResults(disk)
  /\ history = Recorded([p \in Paths |-> <<>>], disk)
  /\ parsed = NotParsed
  /\ StoreIdle

NextScan ==
  \/ ScanReadDir
  \/ ScanNextDir
  \/ ScanNextFile
  \/ ScanLock
  \/ ScanStore
  \/ MainStart
  \/ UIRefreshBegin
  \/ UIRefreshList

SpecScan == InitScan /\ [][NextScan]_vars

(***************************************************************************)
(* Properties of ParseSessionFile (SpecParse).                              *)
(***************************************************************************)
ParsedOk == parsed.done /\ ~parsed.err
ParsedEntries == allEntries(parsed.lines)
ParsedEvents == parsed.sess.Events

\* the assistant message identifiers of the parsed file
MsgIDs ==
  {ParsedEntries[i].Message.ID :
     i \in {j \in 1..Len(ParsedEntries) :
              /\ ParsedEntries[j].Type = "assistant"
              /\ ~ParsedEntries[j].Message.nil
              /\ ParsedEntries[j].Message.ID # ""}}

\* the positions of the raw records of message m
RecordsOf(m) ==
  {i \in 1..Len(ParsedEntries) :
     /\ ParsedEntries[i].Type = "assistant"
     /\ ~ParsedEntries[i].Message.nil
     /\ ParsedEntries[i].Message.ID = m}

EntryTime(i) == parseTimestamp(ParsedEntries[i].Timestamp)

\* the records of m that carry m's latest timestamp
LatestOf(m) ==
  {i \in RecordsOf(m) : \A j \in RecordsOf(m) : EntryTime(j) <= EntryTime(i)}

\* the events of the timeline that stem from a record of message m
EventsOfMessage(m) ==
  SelectSeq(ParsedEvents,
            LAMBDA e : \E i \in RecordsOf(m) : e.UUID = ParsedEntries[i].UUID)

\* the authoritative record of m as the specification defines it: the
\* latest timestamp, and among equal timestamps the last in the file
Authoritative(m) == CHOOSE i \in LatestOf(m) : \A j \in LatestOf(m) : j <= i

RECURSIVE SumOver(_, _)
SumOver(f, S) ==
  IF S = {} THEN 0
  ELSE LET x == CHOOSE y \in S : TRUE IN f[x] + SumOver(f, S \ {x})

UsageOf(i) == ParsedEntries[i].Message.Usage

\* C1: for every assistant message identifier of the file, the timeline
\* holds the events of exactly one of its raw records, one that carries the
\* identifier's latest timestamp, and holds them once, however many
\* earlier partial records or copies of that record the file contains.
C1_EmittedOnce ==
  ParsedOk =>
    \A m \in MsgIDs :
      \E i \in LatestOf(m) :
        EventsOfMessage(m) = parseAssistantMessage(ParsedEntries[i], EntryTime(i))

\* C1's case: a message with an earlier partial record, its revision and
\* a copy of the revision, parsed into a timeline that shows the message
C1_Witness ==
  /\ ParsedOk
  /\ parsed.lines = <<LineA1, LineA2, LineA2>>
  /\ Len(EventsOfMessage("m1")) = 2

\* C2: each of the four token counters is the sum, over the distinct
\* assistant message identifiers, of the usage of the identifier's
\* authoritative record.
C2_TokenSums ==
  ParsedOk =>
    LET auth == {Authoritative(m) : m \in MsgIDs}
        info == parsed.sess.Info
    IN /\ info.InputTokens = SumOver([i \in auth |-> UsageOf(i).InputTokens], auth)
       /\ info.OutputTokens = SumOver([i \in auth |-> UsageOf(i).OutputTokens], auth)
       /\ info.CacheReadTokens =
            SumOver([i \in auth |-> UsageOf(i).CacheReadInputTokens], auth)
       /\ info.CacheWriteTokens =
            SumOver([i \in auth |-> UsageOf(i).CacheCreationInputTokens], auth)

\* the position of the record an event stems from: the first record that
\* carries the event's UUID
SourceOf(e) ==
  CHOOSE i \in 1..Len(ParsedEntries) :
    /\ ParsedEntries[i].UUID = e.UUID
    /\ \A j \in 1..(i - 1) : ParsedEntries[j].UUID # e.UUID

\* C7: the events of a parsed session are non-decreasing by timestamp, and
\* events with equal timestamps stand in the order of their source records.
C7_TimeOrdered ==
  ParsedOk =>
    \A i, j \in 1..Len(ParsedEvents) :
      i < j =>
        /\ ParsedEvents[i].Timestamp <= ParsedEvents[j].Timestamp
        /\ ParsedEvents[i].Timestamp = ParsedEvents[j].Timestamp
             => SourceOf(ParsedEvents[i]) <= SourceOf(ParsedEvents[j])

\* C8: when several records of a message carry its latest timestamp, the
\* one that occurs last in the file is the one whose content is emitted
\* and whose usage the events carry.
C8_LastOfEqualWins ==
  ParsedOk =>
    \A m \in MsgIDs :
      EventsOfMessage(m) =
        parseAssistantMessage(ParsedEntries[Authoritative(m)],
                              EntryTime(Authoritative(m)))


(***************************************************************************)
(* The index and its readers.                                               *)
(***************************************************************************)
\* the identifier the parser gives the Session of a file
SessionIDOf(p) == NewInfo(p).ID

\* the versions a file has had: transcripts are append-only
Versions(p) == Elements(history[p])

\* the current content of a file yields zero events
YieldsNoEvents(p) ==
  /\ ~OpenFails(disk[p])
  /\ \A sess \in ParseSessionFile(p, disk[p]) : Len(sess.Events) = 0

\* nothing is on its way to the index: Scan has returned, no notification
\* waits for Watch, no debounce timer is armed and no callback runs
Quiescent ==
  /\ scan.pc = "running"
  /\ fsEvents = <<>>
  /\ ~debounce.armed
  /\ callbacks = <<>>

\* C3 as stated: once the store is quiescent, a file whose current content
\* yields zero events has no entry in the index, so that neither
\* GetSessions nor GetSession returns it.
C3_EmptyFileNeverListed ==
  Quiescent =>
    \A p \in Paths :
      YieldsNoEvents(p) =>
        /\ GetSession(sessions, SessionIDOf(p)).nil
        /\ \A list \in GetSessions(sessions) :
             \A i \in 1..Len(list) : list[i].FilePath # p

\* C3, amended: a parse that yields zero events never reaches the index.
\* Every Session that Scan or a debounce callback is about to put, and
\* every Session that GetSessions or GetSession returns, has at least one
\* event.
C3_EmptyParseNeverPut ==
  /\ scan.pc \in {"lock", "store"} => Len(scan.sess.Events) > 0
  /\ \A i \in 1..Len(callbacks) :
       callbacks[i].pc \in {"lock", "store", "signal"} =>
         Len(callbacks[i].sess.Events) > 0
  /\ \A id \in DOMAIN sessions :
       /\ Len(GetSession(sessions, id).Events) > 0
       /\ \A list \in GetSessions(sessions) :
            \A i \in 1..Len(list) : list[i].EventCount > 0

\* Scan met s1.jsonl when its content already yielded zero events: the
\* store is quiescent and the file has no entry
C3_Witness ==
  /\ Quiescent
  /\ YieldsNoEvents(PathA1)
  /\ SessionIDOf(PathA1) \notin DOMAIN sessions
  /\ writes > 0

\* the Session is a complete parse of one version of its file
CompleteParse(sess) ==
  \E v \in Versions(sess.Info.FilePath) :
    [Info |-> sess.Info, Events |-> sess.Events] \in v.parses

\* the summary is the summary of a complete parse of one version of its file
CompleteSummary(info) ==
  \E v \in Versions(info.FilePath) : \E sess \in v.parses : sess.Info = info

\* C4: what GetSessions and GetSession have returned to the Model is, for
\* every identifier, the complete Session of one version of the file (the
\* old one or the new one), never a mix of the fields of two parses.
C4_SnapshotIsolation ==
  /\ \A i \in 1..Len(ui.sessions) : CompleteSummary(ui.sessions[i])
  /\ ~ui.selectedSession.nil => CompleteParse(ui.selectedSession)

\* a reader holds the read lock while a callback waits to replace an entry
\* of the index by a different Session
C4_Witness ==
  /\ ui.pc \in {"list", "get", "open"}
  /\ mu.readers > 0
  /\ \E i \in 1..Len(callbacks) :
       /\ callbacks[i].pc = "lock"
       /\ callbacks[i].sess.Info.ID \in DOMAIN sessions
       /\ sessions[callbacks[i].sess.Info.ID].Info # callbacks[i].sess.Info


(***************************************************************************)
(* The debounce timer and the updates channel.                              *)
(***************************************************************************)
\* the debounce timer stands for file p
TimerFor(p) == debounce.armed /\ debounce.path = p

\* the burst of notifications for p is over: the debounce window has
\* elapsed since the last of them and no timer stands for the file
BurstOver(p) == burst[p].age >= DebounceMs /\ ~TimerFor(p)

\* C5: when a burst of write/create notifications for one file is over,
\* the burst has started exactly one re-parse of the file, and at most one
\* notification is pending on the updates channel.
C5_OneReparsePerBurst ==
  \A p \in Paths :
    BurstOver(p) => burst[p].reparses = 1 /\ updates <= 1

\* the callback that time.AfterFunc starts for p
NewCallback(p) == [path |-> p, pc |-> "parse", sess |-> NilSession]

\* C6: debounce is per file. A timer that stands for a file keeps standing
\* for it (a further notification for the file resets it) until it starts
\* the re-parse of that file; no step takes the timer away from the file.
C6_DebouncePerFile ==
  [][\A p \in Paths :
       TimerFor(p) =>
         \/ debounce'.armed /\ debounce'.path = p
         \/ callbacks' = Append(callbacks, NewCallback(p))]_vars

\* C9: the updates channel never holds more than one notification, and a
\* callback that has put its Session can always take its publishing step,
\* whatever the channel holds: with the channel full the step leaves it
\* as it is.
C9_PublishNeverBlocks ==
  /\ updates \in 0..UpdatesCap
  /\ \A i \in 1..Len(callbacks) :
       callbacks[i].pc = "signal" => ENABLED CallbackSignal(i)

\* a callback is about to publish while a notification is pending
C9_Witness ==
  /\ updates = UpdatesCap
  /\ \E i \in 1..Len(callbacks) : callbacks[i].pc = "signal"


(***************************************************************************)
(* FairSpec: the store and the Model's subscription, with the scheduling    *)
(* the program relies on and no key pressed. The goroutines of main, of    *)
(* the callbacks and of the Model's commands keep running, and a writer    *)
(* that waits for sync.RWMutex is not starved by readers. Nothing is       *)
(* assumed of the external tool, of the watcher's deliveries or of the     *)
(* timer.                                                                   *)
(***************************************************************************)
MainSteps ==
  ScanReadDir \/ ScanNextDir \/ ScanNextFile \/ ScanLock \/ ScanStore \/ MainStart

NextLive ==
  \/ \E p \in Paths : \E line \in StorePool(p) : FileWrite(p, line)
  \/ FileOther
  \/ ScanReadDir
  \/ ScanNextDir
  \/ ScanNextFile
  \/ ScanLock
  \/ ScanStore
  \/ MainStart
  \/ WatchEvent
  \/ Tick
  \/ TimerFire
  \/ \E i \in 1..Len(callbacks) : CallbackParse(i)
  \/ \E i \in 1..Len(callbacks) : CallbackLock(i)
  \/ \E i \in 1..Len(callbacks) : CallbackStore(i)
  \/ \E i \in 1..Len(callbacks) : CallbackSignal(i)
  \/ UIReceive
  \/ UIRefreshBegin
  \/ UIRefreshList

Fairness ==
  /\ WF_vars(MainSteps)
  /\ WF_vars(\E i \in 1..Len(callbacks) : CallbackParse(i))
  /\ SF_vars(\E i \in 1..Len(callbacks) : CallbackLock(i))
  /\ WF_vars(\E i \in 1..Len(callbacks) : CallbackStore(i))
  /\ WF_vars(\E i \in 1..Len(callbacks) : CallbackSignal(i))
  /\ WF_vars(UIReceive)
  /\ WF_vars(UIRefreshBegin)
  /\ WF_vars(UIRefreshList)

FairSpec == Init /\ [][NextLive]_vars /\ Fairness

\* the same with one transcript that changes, until the user quits, and the
\* shutdown that follows
NextClose ==
  \/ \E line \in StorePool(PathA1) : FileWrite(PathA1, line)
  \/ ScanReadDir
  \/ ScanNextDir
  \/ ScanNextFile
  \/ ScanLock
  \/ ScanStore
  \/ MainStart
  \/ WatchEvent
  \/ Tick
  \/ TimerFire
  \/ \E i \in 1..Len(callbacks) : CallbackParse(i)
  \/ \E i \in 1..Len(callbacks) : CallbackLock(i)
  \/ \E i \in 1..Len(callbacks) : CallbackStore(i)
  \/ \E i \in 1..Len(callbacks) : CallbackSignal(i)
  \/ UIReceive
  \/ UIRefreshBegin
  \/ UIRefreshList
  \/ UIQuit
  \/ Close
  \/ WatchReturn

FairClose ==
  Init /\ [][NextClose]_vars /\ Fairness /\ WF_vars(Close) /\ WF_vars(WatchReturn)

\* what the Model shows is what the index holds: its list has the summary
\* of every stored Session and no other
InSync ==
  {ui.sessions[i] : i \in 1..Len(ui.sessions)}
    = {sessions[id].Info : id \in DOMAIN sessions}

\* C10: no change of the index is lost to the subscriber. Whenever the
\* Model does not show what the index holds, it comes to show it: every
\* put is followed by a notification that is pending or being handled, and
\* the refresh it causes reads the index after the put.
C10_NoChangeLost == ~InSync ~> InSync

\* a callback has put its Session and is about to publish while an earlier
\* notification is still pending, and the Model has not seen the put
C10_Witness ==
  /\ ~InSync
  /\ updates = UpdatesCap
  /\ \E i \in 1..Len(callbacks) :
       /\ callbacks[i].pc = "signal"
       /\ callbacks[i].sess.Info.ID \in DOMAIN sessions
       /\ sessions[callbacks[i].sess.Info.ID].Info = callbacks[i].sess.Info
       /\ \A j \in 1..Len(ui.sessions) : ui.sessions[j] # callbacks[i].sess.Info


(***************************************************************************)
(* The getters.                                                             *)
(***************************************************************************)
\* C11: every list GetSessions can return holds the summary of every
\* session of the index exactly once and nothing else, and no element's
\* LastUpdate is before the LastUpdate of the element after it.
C11_ListCompleteAndSorted ==
  \A list \in GetSessions(sessions) :
    /\ Len(list) = Cardinality(DOMAIN sessions)
    /\ \A id \in DOMAIN sessions :
         Cardinality({i \in 1..Len(list) : list[i] = sessions[id].Info}) = 1
    /\ \A i \in 1..(Len(list) - 1) :
         ~Before(list[i].LastUpdate, list[i + 1].LastUpdate)

\* the Model shows a list of two sessions that GetSessions had to order
C11_Witness ==
  /\ Len(ui.sessions) = 2
  /\ After(ui.sessions[1].LastUpdate, ui.sessions[2].LastUpdate)
  /\ ui.sessions \in GetSessions(sessions)

(* ---- C12 ---- *)

\* Scan has returned
ScanReturned == scan.pc \in {"done", "running"}

\* the files Scan is to index: readable transcripts, in a readable project
\* directory, that yield at least one event
Indexable(p) ==
  /\ dirs[p.dir] = "ok"
  /\ ~OpenFails(disk[p])
  /\ \E sess \in parseOf[p] : Len(sess.Events) > 0

\* GetSession(id) holds a Session parsed from the file p
HoldsParseOf(index, p) ==
  LET got == GetSession(index, SessionIDOf(p)) IN
  /\ ~got.nil
  /\ [Info |-> got.Info, Events |-> got.Events] \in parseOf[p]

\* C12: after Scan returned without error, every readable transcript under
\* a project directory that yields at least one event is retrievable with
\* GetSession and the Session returned is the one parsed from that file.
C12_EveryFileIndexed ==
  (ScanReturned /\ ~scan.err) =>
    \A p \in Paths : Indexable(p) => HoldsParseOf(sessions, p)

(* ---- C13 ---- *)

\* the Session the Model got from GetSession and still holds
Held == ui.selectedSession

\* C13: the Session the Model holds from GetSession is the same after every
\* step: every pointer to its object reads the Info and Events the Model
\* got, and an index entry that changes refers to another object.
C13_FrozenSnapshot ==
  [][~Held.nil =>
       /\ \A h \in Holders' :
            h.addr = Held.addr => h.Info = Held.Info /\ h.Events = Held.Events
       /\ \A id \in DOMAIN sessions :
            sessions'[id] # sessions[id] =>
              sessions'[id].addr # Held.addr]_vars

\* the Model holds a Session whose index entry has since been replaced by
\* a Session with other events
C13_Witness ==
  /\ ~Held.nil
  /\ Held.Info.ID \in DOMAIN sessions
  /\ sessions[Held.Info.ID].addr # Held.addr
  /\ sessions[Held.Info.ID].Events # Held.Events

(* ---- C14 ---- *)

\* the versions of its file, by their place in the file's history, that
\* the Session sess is a parse of
VersionsOf(sess) ==
  {k \in 1..Len(history[sess.Info.FilePath]) :
     [Info |-> sess.Info, Events |-> sess.Events]
       \in history[sess.Info.FilePath][k].parses}

\* every identifier of the index stays in the index
EntriesPersist == \A id \in DOMAIN sessions : id \in DOMAIN sessions'

\* C14: an identifier that GetSession finds is found after every step,
\* whatever happens to the file, and an entry that changes is overwritten
\* with the parse of a version of the file that is not older than the
\* version the entry was a parse of.
C14_StaleUntilOverwritten ==
  [][/\ EntriesPersist
     /\ \A id \in DOMAIN sessions :
          sessions'[id] # sessions[id] =>
            \E new \in VersionsOf(sessions'[id]), old \in VersionsOf(sessions[id]) :
              new >= old]_vars

(* ---- C15 ---- *)

\* the re-parse of callback i has nothing to store: the file cannot be
\* opened, or its parse has no event
NothingToStore(i) ==
  LET path == callbacks[i].path IN
  \/ OpenFails(disk[path])
  \/ \A sess \in parseOf[path] : Len(sess.Events) = 0

\* callback i returns from its parse (line 119)
Returned(i) == callbacks[i].pc = "parse" /\ callbacks' = RemoveAt(callbacks, i)

\* callback i goes on from its parse to the put
GoesOn(i) ==
  /\ callbacks[i].pc = "parse"
  /\ Len(callbacks') = Len(callbacks)
  /\ callbacks'[i].pc = "lock"

\* Watch takes a write or create notification for a transcript
TakesNotification ==
  /\ fsEvents # <<>>
  /\ fsEvents' = Tail(fsEvents)
  /\ HasSuffix(Head(fsEvents).Name.base, Jsonl)
  /\ Head(fsEvents).Op \in {"WRITE", "CREATE"}

RECURSIVE Decodable(_)
Decodable(lines) ==
  IF lines = <<>> THEN <<>>
  ELSE (IF Head(lines) = BadLine THEN <<>> ELSE <<Head(lines)>>)
         \o Decodable(Tail(lines))

\* C16: ParseSessionFile returns no error for a file with undecodable
\* lines, and what it can return for the file is what it can return for
\* the file without those lines.
C16_BadLinesSkipped ==
  parsed.done =>
    /\ ~parsed.err
    /\ parsed.sess \in ParseSessionFile(parsed.path, Decodable(parsed.lines))
    /\ ParseSessionFile(parsed.path, parsed.lines)
         = ParseSessionFile(parsed.path, Decodable(parsed.lines))

\* a parsed file whose first line is undecodable and whose later lines
\* gave events
C16_Witness ==
  /\ parsed.done
  /\ Len(parsed.lines) >= 2
  /\ parsed.lines[1] = BadLine
  /\ Len(parsed.sess.Events) > 0

(* ---- C17 ---- *)

\* p has its entry: the index holds, under the identifier of p, the parse
\* of an indexable file of that identifier
Inserted(p) ==
  \E q \in Paths :
    /\ SessionIDOf(q) = SessionIDOf(p)
    /\ Indexable(q)
    /\ HoldsParseOf(sessions, q)

\* C17: with a readable base directory Scan returns no error, whatever
\* files cannot be opened and whatever project directories cannot be
\* read, and every readable transcript with events in a readable project
\* directory has been inserted.
C17_ScanSkipsUnreadable ==
  (ScanReturned /\ dirs[BaseDir] = "ok") =>
    /\ ~scan.err
    /\ \A p \in Paths : Indexable(p) => Inserted(p)

\* Scan has returned; it met s1.jsonl, which cannot be opened, before
\* s2.jsonl, and s2.jsonl is in the index
C17_Witness ==
  /\ ScanReturned
  /\ disk[PathA1] = Locked
  /\ Indexable(PathA2)
  /\ HoldsParseOf(sessions, PathA2)

(* ---- C18 ---- *)

\* C18: with the base directory missing or unreadable, Scan returns an
\* error, the index stays empty and nothing is watched; main goes on to
\* start Watch and the Model, and GetSessions returns the empty list.
C18_NoBaseDirectory ==
  dirs[BaseDir] # "ok" =>
    /\ ScanReturned => scan.err
    /\ sessions = <<>>
    /\ GetSessions(sessions) = {<<>>}
    /\ ui.sessions = <<>>
    /\ scan.pc = "done" => ENABLED MainStart

\* the base directory is missing, Scan has returned its error, Watch runs
\* and the Model has made its first refresh
C18_Witness ==
  /\ dirs[BaseDir] = "absent"
  /\ scan.pc = "running"
  /\ scan.err
  /\ ui.pc = "idle"
  /\ ui.msgs = 0
  /\ ui.sessions = <<>>

(* ---- C19 ---- *)

\* C19: a second run of ParseSessionFile on the same content returns the
\* Session the first run returned: the same SessionInfo, with the same
\* FilesRead, FilesWritten and FilesCreated lists, and the same events.
C19_Deterministic ==
  ParsedOk =>
    \A again \in ParseSessionFile(parsed.path, parsed.lines) : again = parsed.sess

(* ---- C20 ---- *)

\* the string is empty or holds white space only
IsBlank(s) == \A i \in 1..Len(s) : IsSpace(s[i])

\* the body of a prompt, text or thinking event
Body(e) ==
  CASE e.Type = EventUserPrompt -> e.UserText
    [] e.Type = EventText -> e.Text
    [] e.Type = EventThinking -> e.Thinking
    [] OTHER -> <<"-">>

\* C20: no UserPrompt, Text or Thinking event of a parsed session has an
\* empty or all-white-space body.
C20_NoBlankBody ==
  ParsedOk =>
    \A i \in 1..Len(ParsedEvents) :
      ParsedEvents[i].Type \in {EventUserPrompt, EventText, EventThinking}
        => ~IsBlank(Body(ParsedEvents[i]))

\* a parsed transcript with a blank thinking block, a blank text block and
\* a blank prompt: the tool calls of the two assistant records are its
\* only events
C20_Witness ==
  /\ ParsedOk
  /\ Elements(parsed.lines) = {LineB1, LineB2, LineU3}
  /\ Len(ParsedEvents) = 2
  /\ \A i \in 1..2 : ParsedEvents[i].Type = EventToolUse


(***************************************************************************)
(* User records flagged as injected compact summaries.                      *)
(***************************************************************************)
IsCompactLine(l) ==
  l.kind = "json" /\ l.entry.Type = "user" /\ l.entry.IsCompactSummary

\* the file without its flagged user records
Unflagged == SelectSeq(parsed.lines, LAMBDA l : ~IsCompactLine(l))

Activity(info) ==
  <<info.UserPrompts, info.Errors, info.ToolCallCount, info.BashCommands,
    info.EventCount>>

\* C21: a user record flagged as an injected compact summary contributes no
\* event and changes no activity counter, whatever its payload: no event
\* carries the UUID of such a record, and the events and the counters of the
\* file are those of the file without its flagged records.
C21_CompactSummarySilent ==
  ParsedOk =>
    /\ \A i \in 1..Len(parsed.lines) :
         IsCompactLine(parsed.lines[i]) =>
           \A k \in 1..Len(ParsedEvents) :
             ParsedEvents[k].UUID # parsed.lines[i].entry.UUID
    /\ \A s \in ParseSessionFile(parsed.path, Unflagged) :
         /\ s.Events = ParsedEvents
         /\ Activity(s.Info) = Activity(parsed.sess.Info)

\* a parsed file that holds a flagged record with a prompt, a flagged record
\* with a failed tool result, and a prompt that is not flagged
C21_Witness ==
  /\ ParsedOk
  /\ \E i, j, k \in 1..Len(parsed.lines) :
       /\ parsed.lines[i] = LineC1
       /\ parsed.lines[j] = LineC2
       /\ parsed.lines[k] = LineU4
  /\ parsed.sess.Info.UserPrompts = 1
  /\ parsed.sess.Info.Errors = 0

(***************************************************************************)
(* The activity counters of a Session against its event list.               *)
(***************************************************************************)
EventsWhere(P(_)) == Cardinality({k \in 1..Len(ParsedEvents) : P(ParsedEvents[k])})

\* C22: in every parsed Session the activity counters match the event list:
\* UserPrompts is the number of UserPrompt events, ToolCallCount the number
\* of ToolUse events, BashCommands the number of ToolUse events named Bash,
\* Errors the number of ToolResult events with the error flag set, and
\* EventCount the length of Events.
C22_CountersMatchEvents ==
  ParsedOk =>
    LET info == parsed.sess.Info IN
    /\ info.UserPrompts = EventsWhere(LAMBDA e : e.Type = EventUserPrompt)
    /\ info.ToolCallCount = EventsWhere(LAMBDA e : e.Type = EventToolUse)
    /\ info.BashCommands =
         EventsWhere(LAMBDA e : e.Type = EventToolUse /\ e.ToolName = "Bash")
    /\ info.Errors = EventsWhere(LAMBDA e : e.Type = EventToolResult /\ e.IsError)
    /\ info.EventCount = Len(ParsedEvents)

\* a parsed Session with a prompt, a Bash call, a call of another tool and a
\* failed tool result
C22_Witness ==
  /\ ParsedOk
  /\ parsed.sess.Info.UserPrompts = 1
  /\ parsed.sess.Info.ToolCallCount = 2
  /\ parsed.sess.Info.BashCommands = 1
  /\ parsed.sess.Info.Errors = 1
  /\ parsed.sess.Info.EventCount > 4

(***************************************************************************)
(* StartTime and LastUpdate.  A timestamp is valid when it parses, and the  *)
(* instants a transcript names lie after the zero time.                     *)
(***************************************************************************)
ValidStamps ==
  {ParsedEntries[i].Timestamp :
     i \in {j \in 1..Len(ParsedEntries) : ParsedEntries[j].Timestamp >= 1}}

Earliest(S) == CHOOSE t \in S : \A u \in S : t <= u
Latest(S) == CHOOSE t \in S : \A u \in S : u <= t

\* C29: in every parsed Session StartTime is the earliest and LastUpdate the
\* latest valid timestamp over all decoded records of the file (the zero
\* time when no record has one), so StartTime <= LastUpdate, and every
\* event with a valid timestamp lies between the two.
C29_StartAndLastUpdate ==
  ParsedOk =>
    LET info == parsed.sess.Info IN
    /\ info.StartTime = IF ValidStamps = {} THEN ZeroTime ELSE Earliest(ValidStamps)
    /\ info.LastUpdate = IF ValidStamps = {} THEN ZeroTime ELSE Latest(ValidStamps)
    /\ info.StartTime <= info.LastUpdate
    /\ \A k \in 1..Len(ParsedEvents) :
         ParsedEvents[k].Timestamp # ZeroTime =>
           /\ info.StartTime <= ParsedEvents[k].Timestamp
           /\ ParsedEvents[k].Timestamp <= info.LastUpdate

\* a parsed file that begins and ends with a record whose timestamp does not
\* parse, with a later and then an earlier valid timestamp in between
C29_Witness ==
  /\ ParsedOk
  /\ Len(ParsedEntries) = 4
  /\ ParsedEntries[1].Timestamp = 0
  /\ ParsedEntries[2].Timestamp > ParsedEntries[3].Timestamp
  /\ ParsedEntries[3].Timestamp >= 1
  /\ ParsedEntries[4].Timestamp = 0
  /\ parsed.sess.Info.StartTime = ParsedEntries[3].Timestamp
  /\ parsed.sess.Info.LastUpdate = ParsedEntries[2].Timestamp
  /\ \E k \in 1..Len(ParsedEvents) : ParsedEvents[k].Timestamp = ZeroTime

(***************************************************************************)
(* Tool calls of a message.                                                 *)
(***************************************************************************)
\* the number of tool_use blocks in the content of record i
ToolUseBlocks(i) ==
  LET c == ParsedEntries[i].Message.Content IN
  IF c.kind # "array" THEN 0
  ELSE Cardinality({k \in 1..Len(c.arr) : c.arr[k].type = "tool_use"})

ToolUseEvents(m) ==
  Len(SelectSeq(EventsOfMessage(m), LAMBDA e : e.Type = EventToolUse))

\* C30: every tool_use block of the authoritative record of a message
\* yields exactly one ToolUse event, also when its input is empty or
\* missing: the number of ToolUse events of the message is the number of
\* tool_use blocks of its authoritative record.
C30_ToolUsePerBlock ==
  ParsedOk =>
    \A m \in MsgIDs : ToolUseEvents(m) = ToolUseBlocks(Authoritative(m))

(***************************************************************************)
(* The lock of the index.                                                   *)
(***************************************************************************)
\* the puts that are inside their write section, lines 82-84 and 121-123
Writers ==
  (IF scan.pc = "store" THEN {"Scan"} ELSE {})
    \cup {i \in 1..Len(callbacks) : callbacks[i].pc = "store"}

\* the calls of GetSessions and GetSession inside their read section
Readers == IF ui.pc \in {"list", "get", "open"} THEN {"Model"} ELSE {}

\* C23: the index enforces reader/writer exclusion. No put of Scan or of
\* the watcher is inside its write section while a GetSessions or a
\* GetSession is inside its read section, and at most one put is inside at
\* a time; a reader inside its read section does not keep a further reader
\* out.
C23_ReadWriteExclusion ==
  /\ ~(Writers # {} /\ Readers # {})
  /\ Cardinality(Writers) <= 1
  /\ mu.writer <=> Writers # {}
  /\ mu.readers = Cardinality(Readers)
  /\ Readers # {} => CanRLock(mu)

\* a put of the watcher is inside its write section while the Model has a
\* refresh to do and cannot enter GetSessions
C23_Witness ==
  /\ \E i \in 1..Len(callbacks) : callbacks[i].pc = "store"
  /\ ui.pc = "idle"
  /\ ui.msgs > 0
  /\ ~ENABLED UIRefreshBegin

(***************************************************************************)
(* The re-parses of one file.                                               *)
(***************************************************************************)
\* C24: the re-parses of a file are serial. No two callbacks of the
\* debounce timer for the same file are in progress (between their start
\* and the end of their put and publication) at the same time.
C24_ReparsesSerial ==
  \A i, j \in 1..Len(callbacks) :
    i # j => callbacks[i].path # callbacks[j].path

(***************************************************************************)
(* Shutdown.                                                                *)
(***************************************************************************)
\* C25: the loop of Watch terminates once the notification source is
\* closed. After Close the goroutine that Watch started returns, and from
\* Close on it handles no event.
C25_WatchLoopTerminates ==
  /\ watcher.closed ~> watcher.returned
  /\ [](watcher.closed => ~ENABLED WatchEvent)

\* the watcher is closed after two changes of the files, while the
\* debounce timer is pending and the loop has not returned yet
C25_Witness ==
  /\ watcher.closed
  /\ ~watcher.returned
  /\ debounce.armed
  /\ writes = MaxWrites

\* C26: a debounce timer that is pending when the loop of Watch terminates
\* is abandoned. Once the loop has returned and no callback is in progress,
\* no re-parse starts, the index is not modified and no notification is
\* published.
C26_PendingTimerAbandoned ==
  [][(watcher.returned /\ callbacks = <<>>) =>
       /\ callbacks' = <<>>
       /\ sessions' = sessions
       /\ updates' <= updates]_vars

(***************************************************************************)
(* The views of the Model.                                                  *)
(***************************************************************************)
\* C27: in the summary view, enter and t switch to the timeline of the
\* selected session, as the hint at the bottom of that view says: wherever
\* the Model shows the summary, handleKey answers either key with the
\* timeline of the same session.
C27_SummaryToTimeline ==
  (ui.pc = "idle" /\ ui.mode = viewOverview) =>
    \A key \in {"enter", "t"} :
      /\ handleKey(ui, key, UnderCursor).mode = viewDetail
      /\ handleKey(ui, key, UnderCursor).selectedSession = ui.selectedSession

\* C28: esc goes back to the view the current one was opened from: from
\* the summary to the view the summary was opened from, from the event view
\* to the timeline, from the timeline to the sessions list.
C28_BackToOpener ==
  ui.pc = "idle" =>
    LET back == handleKey(ui, "esc", UnderCursor).mode IN
    /\ ui.mode = viewOverview => back = ui.from
    /\ ui.mode = viewEvent => back = viewDetail
    /\ ui.mode = viewDetail => back = viewSessions


(***************************************************************************)
(* The files a session touched.                                             *)
(***************************************************************************)
\* the string file_path parameters of the ToolUse events named tool
PathsOf(tool) ==
  {ParsedEvents[k].ToolInput["file_path"].s :
     k \in {j \in 1..Len(ParsedEvents) :
              /\ ParsedEvents[j].Type = EventToolUse
              /\ ParsedEvents[j].ToolName = tool
              /\ "file_path" \in DOMAIN ParsedEvents[j].ToolInput
              /\ ParsedEvents[j].ToolInput["file_path"].isString}}

\* the list holds exactly the members of S, each once
HoldsOnce(list, S) == Elements(list) = S /\ Len(list) = Cardinality(S)

\* C31: FilesRead, FilesCreated and FilesWritten hold, without duplicates,
\* exactly the string file_path parameters of the session's ToolUse events
\* named Read, Write and Edit; other tools and file_path values that are no
\* strings contribute to none of them.
C31_FilesTouched ==
  ParsedOk =>
    /\ HoldsOnce(parsed.sess.Info.FilesRead, PathsOf("Read"))
    /\ HoldsOnce(parsed.sess.Info.FilesCreated, PathsOf("Write"))
    /\ HoldsOnce(parsed.sess.Info.FilesWritten, PathsOf("Edit"))

\* a parsed Session that read one file twice and another once, wrote and
\* edited a file, called a further tool on a file, and passed a number
C31_Witness ==
  /\ ParsedOk
  /\ \E i, j \in 1..Len(parsed.lines) :
       parsed.lines[i] = LineR2 /\ parsed.lines[j] = LineW1
  /\ parsed.lines[1] = LineR1
  /\ Len(parsed.sess.Info.FilesRead) = 2
  /\ Len(parsed.sess.Info.FilesCreated) = 1
  /\ Len(parsed.sess.Info.FilesWritten) = 1
  /\ parsed.sess.Info.ToolCallCount = 8

(***************************************************************************)
(* The entries of the index.                                                *)
(***************************************************************************)
\* C32: every entry of the index is well formed in every reachable state:
\* the Session stored under key k has the identifier k, has at least one
\* event, and its EventCount is the length of its event list.
C32_EntriesWellFormed ==
  \A k \in DOMAIN sessions :
    /\ sessions[k].Info.ID = k
    /\ Len(sessions[k].Events) > 0
    /\ sessions[k].Info.EventCount = Len(sessions[k].Events)

\* the index holds two entries, one stored by Scan and one that a callback
\* of the watcher has just put
C32_Witness ==
  /\ Cardinality(DOMAIN sessions) = 2
  /\ \E i \in 1..Len(callbacks) :
       /\ callbacks[i].pc = "signal"
       /\ sessions[callbacks[i].sess.Info.ID].Events = callbacks[i].sess.Events
  /\ \E k \in DOMAIN sessions :
       \A i \in 1..Len(callbacks) : callbacks[i].sess.Info.ID # k

\* the latest and the earliest version of its file that sess is a parse of
NewestVersion(sess) == CHOOSE k \in VersionsOf(sess) : \A j \in VersionsOf(sess) : j <= k
OldestVersion(sess) == CHOOSE k \in VersionsOf(sess) : \A j \in VersionsOf(sess) : k <= j

\* C33: the index entry of a file never goes backwards. No put of Scan or
\* of a callback of the watcher replaces a Session parsed from a later
\* version of the file by a Session parsed from an earlier version.
C33_NeverBackwards ==
  [][\A id \in DOMAIN sessions \cap DOMAIN sessions' :
       (/\ sessions'[id].Info.FilePath = sessions[id].Info.FilePath
        /\ VersionsOf(sessions[id]) # {}
        /\ VersionsOf(sessions'[id]) # {})
         => NewestVersion(sessions'[id]) >= OldestVersion(sessions[id])]_vars

(***************************************************************************)
(* The order of the timeline.                                               *)
(***************************************************************************)
\* the events that record i yields when it is the only record of a file
Alone(i) ==
  (CHOOSE sess \in ParseSessionFile(parsed.path, <<JsonLine(ParsedEntries[i])>>) :
     TRUE).Events

\* the first record that carries the UUID of record i
FirstWithUUID(i) ==
  CHOOSE k \in 1..i :
    /\ ParsedEntries[k].UUID = ParsedEntries[i].UUID
    /\ \A j \in 1..(k - 1) : ParsedEntries[j].UUID # ParsedEntries[i].UUID

\* the events that stand at file position i: those of a user or system
\* record, and those of the authoritative record of a message at the first
\* record with that record's UUID
Slot(i) ==
  LET e == ParsedEntries[i] IN
  IF e.Type = "assistant"
  THEN IF e.Message.nil \/ e.Message.ID = "" THEN <<>>
       ELSE IF i = FirstWithUUID(Authoritative(e.Message.ID))
            THEN Alone(Authoritative(e.Message.ID)) ELSE <<>>
  ELSE Alone(i)

RECURSIVE SlotsFrom(_)
SlotsFrom(i) == IF i > Len(ParsedEntries) THEN <<>> ELSE Slot(i) \o SlotsFrom(i + 1)

\* C34: the timeline is in file order. The events of a parsed Session are
\* the events of its records in the order of the records, the events of an
\* assistant message standing at the first record whose UUID is that of
\* the message's authoritative record, and the events of one record in the
\* order of its blocks.
C34_FileOrder == ParsedOk => ParsedEvents = SlotsFrom(1)

(***************************************************************************)
(* Lines beyond the scanner's limit.                                        *)
(***************************************************************************)
LongAt(lines) == {k \in 1..Len(lines) : lines[k].kind = "toolong"}

\* the lines before the first line that exceeds the limit
BeforeLong(lines) ==
  IF LongAt(lines) = {} THEN lines
  ELSE SubSeq(lines, 1, (CHOOSE k \in LongAt(lines) : \A j \in LongAt(lines) : k <= j) - 1)

\* C35: a line longer than the 10 MB limit ends the parse of its file. The
\* records before it are processed, every line after it is ignored, and
\* ParseSessionFile returns a Session and no error: what it returns is what
\* it returns for the lines before that line.
C35_LongLineEndsParse ==
  (parsed.done /\ ~OpenFails(parsed.lines)) =>
    /\ ~parsed.err
    /\ parsed.sess \in ParseSessionFile(parsed.path, BeforeLong(parsed.lines))

\* a parsed file with a tool call before a line beyond the limit and tool
\* calls after it
C35_Witness ==
  /\ ParsedOk
  /\ parsed.lines = <<LineR1, TooLongLine, LineW1, LineU4>>
  /\ Len(ParsedEvents) = 1

(***************************************************************************)
(* Assistant records without a message or without a message identifier.    *)
(***************************************************************************)
IsAnonymousLine(l) ==
  /\ l.kind = "json"
  /\ l.entry.Type = "assistant"
  /\ (l.entry.Message.nil \/ l.entry.Message.ID = "")

\* the file without those records
Named == SelectSeq(parsed.lines, LAMBDA l : ~IsAnonymousLine(l))

\* what the claim speaks of: the events, the token usage and its cost, the
\* tool and file counters and the model name
Contribution(sess) ==
  <<sess.Events, sess.Info.InputTokens, sess.Info.OutputTokens,
    sess.Info.CacheReadTokens, sess.Info.CacheWriteTokens, sess.Info.CostUSD,
    sess.Info.ToolCallCount, sess.Info.BashCommands, sess.Info.EventCount,
    Elements(sess.Info.FilesRead), Elements(sess.Info.FilesCreated),
    Elements(sess.Info.FilesWritten), sess.Info.Model>>

\* C36: an assistant record with no message or with an empty message
\* identifier contributes nothing to the session, whatever its blocks are:
\* the events, the token usage, the tool and file counters and the model
\* name of the file are those of the file without such records.
C36_AnonymousAssistantSilent ==
  ParsedOk =>
    /\ \A i \in 1..Len(parsed.lines) :
         IsAnonymousLine(parsed.lines[i]) =>
           \A k \in 1..Len(ParsedEvents) :
             ParsedEvents[k].UUID # parsed.lines[i].entry.UUID
    /\ \A sess \in ParseSessionFile(parsed.path, Named) :
         Contribution(sess) = Contribution(parsed.sess)

\* a parsed file that begins with a record without identifier (blocks,
\* usage and a model of its own) and holds a record without message and a
\* record of a message
C36_Witness ==
  /\ ParsedOk
  /\ parsed.lines = <<LineN2, LineN1, LineR1>>
  /\ parsed.sess.Info.Model = "opus"
  /\ parsed.sess.Info.ToolCallCount = 1
  /\ parsed.sess.Info.InputTokens = 1
(***************************************************************************)
(* The cursors of the Model.                                               *)
(***************************************************************************)
\* C37: after any sequence of key, mouse and update messages the cursor of
\* the sessions list points into the list the Model holds, and is 0 when
\* that list is empty.
C37_CursorInList ==
  ui.pc = "idle" =>
    IF Len(ui.sessions) = 0 THEN ui.cursor = 0
    ELSE ui.cursor >= 0 /\ ui.cursor < Len(ui.sessions)

\* the cursor stands on the last of two sessions, after the watcher added
\* the second one and the user moved down
C37_Witness ==
  /\ ui.pc = "idle"
  /\ ui.mode = viewSessions
  /\ Len(ui.sessions) = 2
  /\ ui.cursor = 1

\* C38: while the timeline is shown the detail cursor points at an event of
\* the selected session, also after an update replaced the selected session
\* with a re-parse of fewer events while auto-follow is off.
C38_DetailCursorInTimeline ==
  (ui.pc = "idle" /\ ui.mode = viewDetail /\ ~ui.selectedSession.nil) =>
    /\ ui.detailCursor >= 0
    /\ ui.detailCursor < Len(ui.selectedSession.Events)
====
